---- MODULE Spec2Model ----
(***************************************************************************)
(* Model of the scoring and one-page fitting code of resuMAX.              *)
(*                                                                         *)
(*   backend/app/resume_layout_engine.py   ResumeNormalizer,               *)
(*                                         TemplateRenderer,               *)
(*                                         OverflowManager                 *)
(*   backend/app/services/layout_engine/engine.py   LayoutEngine           *)
(*   backend/app/semantic_matcher.py       SemanticMatcher                 *)
(*                                                                         *)
(* Scores are integers (a score s stands for the float s / MaxScore).      *)
(* Heights of the HTML fit are in units of about a tenth of an inch: a     *)
(* text line is 1.  Lengths of the layout engine are in 1/7200 inch, font  *)
(* sizes in tenths of a point, line heights in hundredths.                 *)
(*                                                                         *)
(* A behaviour exercises one component: the others stay "off".             *)
(***************************************************************************)
EXTENDS Integers, Sequences, FiniteSets, TLC

\* ------------------------------------------------------------------ bounds
\* most bullets of one entry of an enumerated input resume
MaxBullets == 2
\* scores given by the matcher are 1..MaxScore (0 is normalize's default)
MaxScore == 2
\* the page capacities tried are 5 * (0..MaxCapacity)
MaxCapacity == 3
\* the long resumes have max_iterations .. max_iterations + ExtraBullets bullets
ExtraBullets == 4
\* the resumes laid out have 49 .. 49 + MaxLines bullet lines in their one entry
MaxLines == 12
\* most calls of layout_resume on one LayoutEngine
MaxCalls == 2
\* most bullets given to compute_similarity
MaxScored == 3
\* most keywords of one category found in a bullet
MaxKeywordHits == 2
\* most patterns of one category found in a bullet
MaxPatternHits == 1
\* most bullets given to classify_bullets and balance_categories
MaxBalanced == 4
\* the caps (max_bullets) tried are 0..MaxCap
MaxCap == 6
\* most experience entries of a document laid out on the grid
MaxGridEntries == 3
\* an entry laid out on the grid has 12 bullets and up to MaxGridBullets times 46 more
MaxGridBullets == 1
\* a text broken into lines has at most MaxWords words
MaxWords == 3
\* a word has 1..MaxWordLen characters
MaxWordLen == 3
\* the max widths tried are 0..MaxWidth character widths
MaxWidth == 4
\* a job given to the one-page engine has 10 * (0..MaxTens) bullets
MaxTens == 3

\* mutant of max_iterations: the loop runs once more (range(max_iterations + 1))
max_iterations_plus_one == 50 + 1

\* the safety limit of fit_to_one_page
max_iterations == 50

Texts == {"a", "b"}
Scores == 1..MaxScore

RECURSIVE SumSeq(_)
SumSeq(s) == IF s = <<>> THEN 0 ELSE Head(s) + SumSeq(Tail(s))

\* ------------------------------------------------------------------ state
VARIABLES
    parsed_resume,     \* the input of normalize: experience and projects, bullets as texts
    semantic_scores,   \* the input of normalize: a list of [bullet, score]
    capacity,          \* what the PDF renderer fits on one page (tenths of an inch)
    normalized_data,   \* the dict normalize returns and fit_to_one_page mutates
    pc,                \* "start", "loop" (top of the for loop), "done" (returned)
    iteration,         \* the loop variable of fit_to_one_page
    removed,           \* the bullets popped so far, in order (the "Removed bullet" log)
    measured_mode,     \* the spacing mode of the most recent render_html
    measured_data,     \* the document of the most recent render_html and _count_pages
    stop,              \* which return statement was taken
    run,               \* 1: the first call, 2: a second call
    prev,              \* what the first call returned
    \* services/layout_engine: one LayoutEngine and its calls
    settings,          \* self.settings
    compression_level, \* self.compression_level
    resume_data,       \* the argument of layout_resume
    compression,       \* the loop variable of layout_resume
    layout_result,     \* the LayoutResult returned
    measurements,      \* the _calculate_layout results of the current call, in order
    lpc,               \* "idle", "try" (top of the for loop), "returned"
    calls,             \* the calls of layout_resume made on this engine
    \* semantic_matcher: one call of compute_similarity
    resume_bullets,    \* the argument resume_bullets
    similarities,      \* the cosine similarity of each text to the job description
    results,           \* the list returned
    mpc,               \* "call", "returned", "raised" (an exception left the call)
    job_description,   \* the argument job_description
    use_embeddings,    \* self.use_embeddings: sentence-transformers, else TF-IDF
    vocabulary,        \* the features the TfidfVectorizer self.model was last fitted on
    encode_calls,      \* the calls of self.encode made by the call
    \* bullet_classifier: one call of classify_bullet
    keyword_hits,      \* for each category, how many of its keywords are in the bullet
    pattern_hits,      \* for each category, how many of its patterns match the bullet
    category,          \* the BulletCategory returned
    cpc,               \* "call", "returned"
    \* bullet_classifier: classify_bullets, then balance_categories
    input_bullets,     \* the argument bullets of classify_bullets
    score_map,         \* the semantic score of each text (optimize_resume's score_map)
    max_bullets,       \* the argument max_bullets
    categorized,       \* what classify_bullets returned: category -> list of dicts
    selected,          \* the local list selected
    quota_selected,    \* selected as it was when the first loop ended
    balanced,          \* the texts returned
    bpc,               \* "classify", "quota", "fill", "returned"
    \* services/layout: one call of the grid LayoutEngine.layout_resume
    canonical,         \* the argument canonical
    template,          \* self.template (its spacings and page geometry)
    grid_level,        \* self.compression_level
    grid_compression,  \* the loop variable compression
    compressed,        \* the template as _apply_compression left it, for each level
    grid_measured,     \* for each level tried: the settings measured with, the height
    grid_result,       \* the dict returned
    gpc,               \* "idle", "try" (top of the for loop), "returned"
    \* optimizer / semantic_matcher: two optimization runs in one process
    matcher_instance,      \* the global _matcher_instance: 0 for None, else a matcher
    instances_created,     \* how many SemanticMatcher() were constructed
    embeddings_available,  \* EMBEDDINGS_AVAILABLE
    fitted,                \* for each matcher: the texts its vectorizer was last fitted on
    run_pc,                \* for each run: its position in optimize_resume
    run_matcher,           \* for each run: its local variable matcher
    run_job,               \* for each run: its job description
    run_bullets,           \* for each run: its bullets
    job_embedding,         \* for each run: encode([job_description])
    bullet_embeddings,     \* for each run: encode(resume_bullets)
    \* layout_engine/font_metrics: one call of calculate_line_breaks
    words,             \* text.split(), each word given by its number of characters
    max_width_inches,  \* the argument, in character widths
    lines,             \* the list returned, each line the list of its words
    fpc,               \* "call", "returned"
    \* services/one_page_engine: one call of OnePageLayoutEngine.calculate_layout
    content,           \* the argument resume_data, given by the sizes of its parts
    current_font_size, \* the argument current_font_size
    metrics,           \* the LayoutMetrics returned
    opc,               \* "call", "returned"
    \* optimizer: step 8 of one call of optimize_resume
    optimize_input,    \* parsed_resume as the caller passed it
    semantic_results,  \* what matcher.compute_similarity returned in step 1
    optimized_resume,  \* parsed_resume as step 8 leaves it
    xpc,               \* "step8", "reordered"
    \* structure_preserving_optimizer: one call of reconstruct_resume
    original_text,     \* the argument original_text, as its list of lines
    optimized_bullets, \* the argument optimized_bullets: section -> list of texts
    output_lines,      \* the local output_lines, joined and returned
    rpc                \* "call", "returned"

fitVars == <<parsed_resume, semantic_scores, capacity, normalized_data, pc, iteration,
             removed, measured_mode, measured_data, stop, run, prev>>

layoutVars == <<settings, compression_level, resume_data, compression, layout_result,
                measurements, lpc, calls>>

matcherVars == <<resume_bullets, similarities, results, mpc, job_description,
                 use_embeddings, vocabulary, encode_calls>>

classifierVars == <<keyword_hits, pattern_hits, category, cpc>>

balanceVars == <<input_bullets, score_map, max_bullets, categorized, selected,
                 quota_selected, balanced, bpc>>

gridVars == <<canonical, template, grid_level, grid_compression, compressed,
              grid_measured, grid_result, gpc>>

breakVars == <<words, max_width_inches, lines, fpc>>

runVars == <<matcher_instance, instances_created, embeddings_available, fitted, run_pc,
             run_matcher, run_job, run_bullets, job_embedding, bullet_embeddings>>

onePageVars == <<content, current_font_size, metrics, opc>>

optimizeVars == <<optimize_input, semantic_results, optimized_resume, xpc>>

reconstructVars == <<original_text, optimized_bullets, output_lines, rpc>>

notFitVars == <<layoutVars, matcherVars, classifierVars, balanceVars, gridVars, runVars,
                breakVars, onePageVars, optimizeVars, reconstructVars>>

notLayoutVars == <<fitVars, matcherVars, classifierVars, balanceVars, gridVars, runVars,
                   breakVars, onePageVars, optimizeVars, reconstructVars>>

notMatcherVars == <<fitVars, layoutVars, classifierVars, balanceVars, gridVars, runVars,
                    breakVars, onePageVars, optimizeVars, reconstructVars>>

notClassifierVars == <<fitVars, layoutVars, matcherVars, balanceVars, gridVars, runVars,
                       breakVars, onePageVars, optimizeVars, reconstructVars>>

notBalanceVars == <<fitVars, layoutVars, matcherVars, classifierVars, gridVars, runVars,
                    breakVars, onePageVars, optimizeVars, reconstructVars>>

notGridVars == <<fitVars, layoutVars, matcherVars, classifierVars, balanceVars, runVars,
                 breakVars, onePageVars, optimizeVars, reconstructVars>>

notRunVars == <<fitVars, layoutVars, matcherVars, classifierVars, balanceVars, gridVars,
                breakVars, onePageVars, optimizeVars, reconstructVars>>

notBreakVars == <<fitVars, layoutVars, matcherVars, classifierVars, balanceVars, gridVars,
                  runVars, onePageVars, optimizeVars, reconstructVars>>

notOnePageVars == <<fitVars, layoutVars, matcherVars, classifierVars, balanceVars,
                    gridVars, runVars, breakVars, optimizeVars, reconstructVars>>

notOptimizeVars == <<fitVars, layoutVars, matcherVars, classifierVars, balanceVars,
                     gridVars, runVars, breakVars, onePageVars, reconstructVars>>

notReconstructVars == <<fitVars, layoutVars, matcherVars, classifierVars, balanceVars,
                        gridVars, runVars, breakVars, onePageVars, optimizeVars>>

vars == <<fitVars, layoutVars, matcherVars, classifierVars, balanceVars, gridVars, runVars,
          breakVars, onePageVars, optimizeVars, reconstructVars>>

\* ------------------------------------------------------------------ sorting
\* mutant of SortPosition: a record goes before the records of equal score that
\* precede it (what sorting ascending and reversing the result does to ties)
SortPositionBeforeTies(s, i) ==
    1 + Cardinality({j \in 1..Len(s) :
                        \/ s[j].score > s[i].score
                        \/ s[j].score = s[i].score /\ j > i})

\* list.sort(key=score, reverse=True) is stable: a record ends after the records
\* whose score is higher and after those of equal score that precede it
SortPosition(s, i) ==
    1 + Cardinality({j \in 1..Len(s) :
                        \/ s[j].score > s[i].score
                        \/ s[j].score = s[i].score /\ j < i})

SortByScoreDesc(s) ==
    [k \in 1..Len(s) |-> s[CHOOSE i \in 1..Len(s) : SortPosition(s, i) = k]]

\* ------------------------------------------------------------------ normalize
\* score_map = {item["bullet"]: item["score"] for item in semantic_scores};
\* score_map.get(bullet, 0): the last item of a bullet wins, 0 when there is none
RECURSIVE ScoreMapGet(_, _)
ScoreMapGet(scores, bullet) ==
    IF scores = <<>> THEN 0
    ELSE IF scores[Len(scores)].bullet = bullet THEN scores[Len(scores)].score
         ELSE ScoreMapGet(SubSeq(scores, 1, Len(scores) - 1), bullet)

\* mutant of BulletsWithScores: every scored bullet is put into every entry
BulletsWithScoresAll(bullets, scores) ==
    SortByScoreDesc([i \in 1..Len(scores) |->
        [text |-> scores[i].bullet, score |-> scores[i].score, orig |-> i]])

\* bullets_with_scores, sorted; orig is the bullet's index in the input entry
\* (a history field: the code keeps text and score only)
BulletsWithScores(bullets, scores) ==
    SortByScoreDesc([i \in 1..Len(bullets) |->
        [text |-> bullets[i], score |-> ScoreMapGet(scores, bullets[i]), orig |-> i]])

NormalizeExperience(exp, scores) ==
    [title |-> exp.title, company |-> exp.company, location |-> exp.location,
     date |-> exp.date, bullets |-> BulletsWithScores(exp.bullets, scores)]

NormalizeProject(proj, scores) ==
    [name |-> proj.name, tech_stack |-> proj.tech_stack, link |-> proj.link,
     bullets |-> BulletsWithScores(proj.bullets, scores)]

\* ResumeNormalizer.normalize; the returned dict has no _spacing_mode key ("unset")
Normalize(parsed, scores) ==
    [experience |-> [i \in 1..Len(parsed.experience) |->
                        NormalizeExperience(parsed.experience[i], scores)],
     projects |-> [i \in 1..Len(parsed.projects) |->
                        NormalizeProject(parsed.projects[i], scores)],
     spacing_mode |-> "unset"]

\* ------------------------------------------------------------------ render and measure
\* data.get('_spacing_mode', 'balanced')
SpacingMode(data) ==
    IF data.spacing_mode = "unset" THEN "balanced" ELSE data.spacing_mode

\* section_margin_top + section_margin_bottom: 0.2in + 0.12in, else 0.12in + 0.08in
SectionMargin(mode) == IF mode = "balanced" THEN 3 ELSE 2

\* entry_margin_bottom: 0.2in, else 0.1in
EntryMargin(mode) == IF mode = "balanced" THEN 2 ELSE 1

\* one div.entry: its header, its bullets (one line each), its bottom margin
EntryHeight(entry, mode) == 1 + Len(entry.bullets) + EntryMargin(mode)

\* {% if entries %} section header {% for ... %} entry {% endfor %} {% endif %}
SectionHeight(entries, mode) ==
    IF entries = <<>> THEN 0
    ELSE SectionMargin(mode)
         + SumSeq([i \in 1..Len(entries) |-> EntryHeight(entries[i], mode)])

\* render_html: the height of the rendered experience and projects sections
RenderHeight(data) ==
    SectionHeight(data.experience, SpacingMode(data))
    + SectionHeight(data.projects, SpacingMode(data))

\* _count_pages: the number of pages of the rendered document
CountPages(height, cap) ==
    IF height <= cap THEN 1
    ELSE IF cap = 0 THEN 2
    ELSE (height + cap - 1) \div cap

\* mutant of Fits: if page_count < 1
FitsBelowOne(page_count) == page_count < 1

\* if page_count <= 1
Fits(page_count) == page_count <= 1

\* ------------------------------------------------------------------ _remove_lowest_bullet
\* the (entry, bullet) pairs of one section in the order the nested for loops visit them
RECURSIVE SectionCandidates(_, _, _)
SectionCandidates(section, entries, i) ==
    IF i > Len(entries) THEN <<>>
    ELSE [b \in 1..Len(entries[i].bullets) |->
            [section |-> section, entry_idx |-> i, bullet_idx |-> b,
             score |-> entries[i].bullets[b].score]]
         \o SectionCandidates(section, entries, i + 1)

\* "Search experience", then "Search projects"
Candidates(data) ==
    SectionCandidates("experience", data.experience, 1)
    \o SectionCandidates("projects", data.projects, 1)

\* lowest_bullet = None, lowest_score = float('inf')
NoLowest == [section |-> "none", entry_idx |-> 0, bullet_idx |-> 0, score |-> 0]

\* the two nested scans: "if bullet["score"] < lowest_score" replaces the bullet kept
\* only by a strictly lower one, so the scan ends with the first bullet, in the order
\* visited, whose score is the lowest (None when there is no bullet)
ScanLowest(cands) ==
    IF cands = <<>> THEN NoLowest
    ELSE cands[CHOOSE i \in 1..Len(cands) :
                  /\ \A j \in 1..Len(cands) : cands[i].score <= cands[j].score
                  /\ \A j \in 1..(i - 1) : cands[j].score > cands[i].score]

\* mutant of FindLowest: the lowest bullet of the first section that has bullets
FindLowestBySection(data) ==
    LET in_experience == ScanLowest(SectionCandidates("experience", data.experience, 1))
    IN  IF in_experience # NoLowest THEN in_experience
        ELSE ScanLowest(SectionCandidates("projects", data.projects, 1))

\* the search of _remove_lowest_bullet (the candidates are computed once)
FindLowest(data) ==
    CHOOSE low \in {ScanLowest(cands) : cands \in {Candidates(data)}} : TRUE

\* list.pop(i)
Pop(s, i) == SubSeq(s, 1, i - 1) \o SubSeq(s, i + 1, Len(s))

\* mutant of PopBullet: an entry whose last bullet goes is deleted with it
PopBulletDropEmpty(data, low) ==
    IF low.section = "experience"
    THEN IF Len(data.experience[low.entry_idx].bullets) = 1
         THEN [data EXCEPT !.experience = Pop(@, low.entry_idx)]
         ELSE [data EXCEPT !.experience[low.entry_idx].bullets = Pop(@, low.bullet_idx)]
    ELSE IF Len(data.projects[low.entry_idx].bullets) = 1
         THEN [data EXCEPT !.projects = Pop(@, low.entry_idx)]
         ELSE [data EXCEPT !.projects[low.entry_idx].bullets = Pop(@, low.bullet_idx)]

\* data[section][entry_idx]["bullets"].pop(bullet_idx)
PopBullet(data, low) ==
    IF low.section = "experience"
    THEN [data EXCEPT !.experience[low.entry_idx].bullets = Pop(@, low.bullet_idx)]
    ELSE [data EXCEPT !.projects[low.entry_idx].bullets = Pop(@, low.bullet_idx)]

\* the bullet at a candidate position, with where it was (for the removal log)
BulletAt(data, low) ==
    LET entries == IF low.section = "experience" THEN data.experience ELSE data.projects
        b == entries[low.entry_idx].bullets[low.bullet_idx]
    IN  [section |-> low.section, entry_idx |-> low.entry_idx,
         text |-> b.text, score |-> b.score, orig |-> b.orig]

\* ------------------------------------------------------------------ inputs
\* hard fields are opaque values, distinct for each entry
ExperienceEntry(i, bullets) ==
    [title |-> <<"title", i>>, company |-> <<"company", i>>,
     location |-> <<"location", i>>, date |-> <<"date", i>>, bullets |-> bullets]

ProjectEntry(i, bullets) ==
    [name |-> <<"name", i>>, tech_stack |-> <<"tech_stack", i>>,
     link |-> <<"link", i>>, bullets |-> bullets]

BulletLists == UNION {[1..n -> Texts] : n \in 0..MaxBullets}

\* (number of experience entries, number of project entries) of the short resumes
Shapes == {<<0, 0>>, <<1, 0>>, <<0, 1>>, <<2, 0>>, <<1, 1>>}

ShortResumes ==
    UNION {
        {[experience |-> [i \in 1..sh[1] |-> ExperienceEntry(i, eb[i])],
          projects |-> [i \in 1..sh[2] |-> ProjectEntry(i, pb[i])]] :
            eb \in [1..sh[1] -> BulletLists], pb \in [1..sh[2] -> BulletLists]} :
        sh \in Shapes}

\* one job with n bullets, more than the loop can remove
LongResume(n) ==
    [experience |-> <<ExperienceEntry(1, [i \in 1..n |-> IF i % 2 = 1 THEN "a" ELSE "b"])>>,
     projects |-> <<>>]

LongResumes == {LongResume(n) : n \in max_iterations..(max_iterations + ExtraBullets)}

\* the matcher's output for the texts it was given: one item a text, best score first
ScoreLists ==
    UNION {
        {SortByScoreDesc([i \in 1..Len(ts) |-> [bullet |-> ts[i], score |-> f[ts[i]]]]) :
            f \in [{ts[i] : i \in 1..Len(ts)} -> Scores]} :
        ts \in {<<>>, <<"a">>, <<"b">>, <<"a", "b">>}}

Capacities == {5 * k : k \in 0..MaxCapacity}

\* ------------------------------------------------------------------ fit_to_one_page
\* no render_html yet in this call
NotMeasured == [experience |-> <<>>, projects |-> <<>>, spacing_mode |-> "none"]

FitInit ==
    /\ parsed_resume \in ShortResumes \cup LongResumes
    /\ semantic_scores \in ScoreLists
    /\ capacity \in Capacities
    /\ normalized_data = [experience |-> <<>>, projects |-> <<>>, spacing_mode |-> "unset"]
    /\ pc = "start"
    /\ iteration = 0
    /\ removed = <<>>
    /\ measured_mode = "none"
    /\ measured_data = NotMeasured
    /\ stop = "none"
    /\ run = 1
    /\ prev = [data |-> <<>>, removed |-> <<>>, stop |-> "none", call |-> "none"]

\* generate_optimized_resume_html, step 1: normalized_data = normalizer.normalize(...)
NormalizeStep ==
    /\ pc = "start"
    /\ normalized_data' = Normalize(parsed_resume, semantic_scores)
    /\ pc' = "loop"
    /\ iteration' = 0
    /\ removed' = <<>>
    /\ stop' = "none"
    /\ UNCHANGED <<parsed_resume, semantic_scores, capacity, measured_mode,
                   measured_data, run, prev>>
    /\ UNCHANGED notFitVars

\* page_count = self._count_pages(self.renderer.render_html(normalized_data))
PageCount == CountPages(RenderHeight(normalized_data), capacity)

\* an iteration that finds the document on one page: set 'balanced', return
IterationFits ==
    /\ pc = "loop"
    /\ iteration < max_iterations
    /\ Fits(PageCount)
    /\ measured_mode' = SpacingMode(normalized_data)
    /\ measured_data' = normalized_data
    /\ normalized_data' = [normalized_data EXCEPT !.spacing_mode = "balanced"]
    /\ pc' = "done"
    /\ stop' = "fits"
    /\ UNCHANGED <<parsed_resume, semantic_scores, capacity, iteration, removed, run, prev>>
    /\ UNCHANGED notFitVars

\* the last candidate with the lowest score (ScanLowest with <= for <)
ScanLowestLast(cands) ==
    IF cands = <<>> THEN NoLowest
    ELSE cands[CHOOSE i \in 1..Len(cands) :
                  /\ \A j \in 1..Len(cands) : cands[i].score <= cands[j].score
                  /\ \A j \in (i + 1)..Len(cands) : cands[j].score > cands[i].score]

\* mutant of IterationRemove: the order in which bullets of equal score are visited
\* differs from one run to the next (as the order of a hashed collection does)
IterationRemoveRunOrder ==
    /\ pc = "loop"
    /\ iteration < max_iterations
    /\ ~Fits(PageCount)
    /\ \E low \in {IF run = 1 THEN FindLowest(normalized_data)
                    ELSE ScanLowestLast(Candidates(normalized_data))} :
          /\ low # NoLowest
          /\ normalized_data' = PopBullet(normalized_data, low)
          /\ removed' = Append(removed, BulletAt(normalized_data, low))
    /\ measured_mode' = SpacingMode(normalized_data)
    /\ measured_data' = normalized_data
    /\ iteration' = iteration + 1
    /\ UNCHANGED <<parsed_resume, semantic_scores, capacity, pc, stop, run, prev>>
    /\ UNCHANGED notFitVars

\* an iteration that overflows and removes the lowest bullet
IterationRemove ==
    /\ pc = "loop"
    /\ iteration < max_iterations
    /\ ~Fits(PageCount)
    /\ \E low \in {FindLowest(normalized_data)} :
          /\ low # NoLowest
          /\ normalized_data' = PopBullet(normalized_data, low)
          /\ removed' = Append(removed, BulletAt(normalized_data, low))
    /\ measured_mode' = SpacingMode(normalized_data)
    /\ measured_data' = normalized_data
    /\ iteration' = iteration + 1
    /\ UNCHANGED <<parsed_resume, semantic_scores, capacity, pc, stop, run, prev>>
    /\ UNCHANGED notFitVars

\* an iteration that overflows with no bullet left: set 'compact', return
IterationNoBullets ==
    /\ pc = "loop"
    /\ iteration < max_iterations
    /\ ~Fits(PageCount)
    /\ FindLowest(normalized_data) = NoLowest
    /\ measured_mode' = SpacingMode(normalized_data)
    /\ measured_data' = normalized_data
    /\ normalized_data' = [normalized_data EXCEPT !.spacing_mode = "compact"]
    /\ pc' = "done"
    /\ stop' = "no_bullets"
    /\ UNCHANGED <<parsed_resume, semantic_scores, capacity, iteration, removed, run, prev>>
    /\ UNCHANGED notFitVars

\* the for loop ends: "Reached max iterations", set 'compact', return
MaxIterationsReached ==
    /\ pc = "loop"
    /\ iteration >= max_iterations
    /\ normalized_data' = [normalized_data EXCEPT !.spacing_mode = "compact"]
    /\ pc' = "done"
    /\ stop' = "max_iterations"
    /\ UNCHANGED <<parsed_resume, semantic_scores, capacity, iteration, removed,
                   measured_mode, measured_data, run, prev>>
    /\ UNCHANGED notFitVars

\* generate_optimized_resume_html is called again with the same arguments
RunAgain ==
    /\ pc = "done"
    /\ run = 1
    /\ prev' = [data |-> normalized_data, removed |-> removed, stop |-> stop,
                call |-> "again"]
    /\ run' = 2
    /\ pc' = "start"
    /\ measured_mode' = "none"
    /\ measured_data' = NotMeasured
    /\ UNCHANGED <<parsed_resume, semantic_scores, capacity, normalized_data, iteration,
                   removed, stop>>
    /\ UNCHANGED notFitVars

\* fit_to_one_page is called on the dict it returned
Refit ==
    /\ pc = "done"
    /\ run = 1
    /\ prev' = [data |-> normalized_data, removed |-> removed, stop |-> stop,
                call |-> "refit"]
    /\ run' = 2
    /\ pc' = "loop"
    /\ iteration' = 0
    /\ removed' = <<>>
    /\ stop' = "none"
    /\ measured_mode' = "none"
    /\ measured_data' = NotMeasured
    /\ UNCHANGED <<parsed_resume, semantic_scores, capacity, normalized_data>>
    /\ UNCHANGED notFitVars

\* the fit component is not exercised
FitOff ==
    /\ parsed_resume = [experience |-> <<>>, projects |-> <<>>]
    /\ semantic_scores = <<>>
    /\ capacity = 0
    /\ normalized_data = [experience |-> <<>>, projects |-> <<>>, spacing_mode |-> "unset"]
    /\ pc = "off"
    /\ iteration = 0
    /\ removed = <<>>
    /\ measured_mode = "none"
    /\ measured_data = NotMeasured
    /\ stop = "none"
    /\ run = 1
    /\ prev = [data |-> <<>>, removed |-> <<>>, stop |-> "none", call |-> "none"]

\* ------------------------------------------------------------------ layout_engine.LayoutEngine
\* LayoutSettings(): 11in page, 0.5in margins, 10pt font, 12pt headings, line height
\* 1.2, section spacing 0.15in, bullet indent 0.25in, paragraph spacing 0.08in
DefaultSettings ==
    [page_height |-> 79200, margin_top |-> 3600, margin_bottom |-> 3600,
     font_size |-> 100, heading_size |-> 120, line_height |-> 120,
     section_spacing |-> 1080, bullet_indent |-> 1800, paragraph_spacing |-> 576]

\* mutant of ApplyCompression: every level starts from the defaults
ApplyCompressionReset(st, level) ==
    IF level = 0 THEN DefaultSettings
    ELSE IF level = 1 THEN [DefaultSettings EXCEPT !.line_height = 115]
    ELSE IF level = 2
         THEN [DefaultSettings EXCEPT !.line_height = 110, !.section_spacing = 864,
                                      !.paragraph_spacing = 432]
    ELSE IF level = 3
         THEN [DefaultSettings EXCEPT !.line_height = 110, !.section_spacing = 720,
                                      !.paragraph_spacing = 360, !.bullet_indent = 1440]
    ELSE [DefaultSettings EXCEPT !.font_size = 95, !.heading_size = 110,
                                 !.line_height = 110, !.section_spacing = 576,
                                 !.paragraph_spacing = 288, !.bullet_indent = 1440]

\* _apply_compression: the level's values are written into self.settings; what a
\* level does not write keeps the value it had (base_settings is never used)
ApplyCompression(st, level) ==
    IF level = 0 THEN st
    ELSE IF level = 1 THEN [st EXCEPT !.line_height = 115]
    ELSE IF level = 2
         THEN [st EXCEPT !.line_height = 110, !.section_spacing = 864,
                         !.paragraph_spacing = 432]
    ELSE IF level = 3
         THEN [st EXCEPT !.line_height = 110, !.section_spacing = 720,
                         !.paragraph_spacing = 360, !.bullet_indent = 1440]
    ELSE [st EXCEPT !.font_size = 95, !.heading_size = 110, !.line_height = 110,
                    !.section_spacing = 576, !.paragraph_spacing = 288,
                    !.bullet_indent = 1440]

\* FontMetrics.calculate_height(1, line_height): font_size * line_height / 72 inches
LineHeight(st) == (st.font_size * st.line_height) \div 10

\* heading_size / 72.0 inches
HeadingHeight(st) == st.heading_size * 10

\* one entry: its main_text lines, its bullet lines, then paragraph_spacing
LayoutEntryHeight(entry, st) ==
    (entry.main_lines + entry.bullet_lines) * LineHeight(st) + st.paragraph_spacing

\* one section: its title and 0.05in, its entries, then section_spacing
LayoutSectionHeight(section, st) ==
    HeadingHeight(st) + 360
    + SumSeq([i \in 1..Len(section) |-> LayoutEntryHeight(section[i], st)])
    + st.section_spacing

\* _calculate_layout: current_y after the last section; it starts at margin_top
CalculateLayout(resume, st) ==
    st.margin_top
    + (IF resume.has_name THEN HeadingHeight(st) + 360 ELSE 0)
    + resume.contact_lines * LineHeight(st)
    + st.section_spacing
    + SumSeq([i \in 1..Len(resume.sections) |-> LayoutSectionHeight(resume.sections[i], st)])

\* content_area_height = page_height - margin_top - margin_bottom
ContentAreaHeight(st) == st.page_height - st.margin_top - st.margin_bottom

\* resumes of one section with one entry; a line of text does not wrap differently
\* from one level to the next
LayoutResumes ==
    {[has_name |-> n, contact_lines |-> 1,
      sections |-> << <<[main_lines |-> 1, bullet_lines |-> 49 + k]>> >>] :
        n \in BOOLEAN, k \in 0..MaxLines}

NoResult == [total_height |-> 0, fits_on_page |-> FALSE, compression_level |-> 0,
             settings |-> DefaultSettings]

\* LayoutEngine(): settings = LayoutSettings(), compression_level = 0
LayoutInit ==
    /\ settings = DefaultSettings
    /\ compression_level = 0
    /\ resume_data = [has_name |-> FALSE, contact_lines |-> 0, sections |-> <<>>]
    /\ compression = 0
    /\ layout_result = NoResult
    /\ measurements = <<>>
    /\ lpc = "idle"
    /\ calls = 0

\* the layout engine is not exercised
LayoutOff ==
    /\ settings = DefaultSettings
    /\ compression_level = 0
    /\ resume_data = [has_name |-> FALSE, contact_lines |-> 0, sections |-> <<>>]
    /\ compression = 0
    /\ layout_result = NoResult
    /\ measurements = <<>>
    /\ lpc = "off"
    /\ calls = 0

\* layout_resume(resume_data) is called on the engine
LayoutResume ==
    /\ lpc \in {"idle", "returned"}
    /\ calls < MaxCalls
    /\ resume_data' \in LayoutResumes
    /\ compression' = 0
    /\ measurements' = <<>>
    /\ lpc' = "try"
    /\ calls' = calls + 1
    /\ UNCHANGED <<settings, compression_level, layout_result>>
    /\ UNCHANGED notLayoutVars

Measurement(level, st) ==
    [level |-> level, total_height |-> CalculateLayout(resume_data, st),
     content_area_height |-> ContentAreaHeight(st), settings |-> st]

\* an iteration of "for compression in range(5)" whose layout fits: return it
LayoutFits ==
    /\ lpc = "try"
    /\ compression < 5
    /\ \E st \in {ApplyCompression(settings, compression)} :
          /\ CalculateLayout(resume_data, st) <= ContentAreaHeight(st)
          /\ settings' = st
          /\ measurements' = Append(measurements, Measurement(compression, st))
          /\ layout_result' = [total_height |-> CalculateLayout(resume_data, st),
                               fits_on_page |-> TRUE,
                               compression_level |-> compression, settings |-> st]
    /\ compression_level' = compression
    /\ lpc' = "returned"
    /\ UNCHANGED <<resume_data, compression, calls>>
    /\ UNCHANGED notLayoutVars

\* mutant of LayoutCompress: an overflowing level 0 is followed by level 2
LayoutCompressSkip ==
    /\ lpc = "try"
    /\ compression < 5
    /\ \E st \in {ApplyCompression(settings, compression)} :
          /\ CalculateLayout(resume_data, st) > ContentAreaHeight(st)
          /\ settings' = st
          /\ measurements' = Append(measurements, Measurement(compression, st))
    /\ compression_level' = compression
    /\ compression' = IF compression = 0 THEN 2 ELSE compression + 1
    /\ UNCHANGED <<resume_data, layout_result, lpc, calls>>
    /\ UNCHANGED notLayoutVars

\* an iteration whose layout does not fit: on to the next level
LayoutCompress ==
    /\ lpc = "try"
    /\ compression < 5
    /\ \E st \in {ApplyCompression(settings, compression)} :
          /\ CalculateLayout(resume_data, st) > ContentAreaHeight(st)
          /\ settings' = st
          /\ measurements' = Append(measurements, Measurement(compression, st))
    /\ compression_level' = compression
    /\ compression' = compression + 1
    /\ UNCHANGED <<resume_data, layout_result, lpc, calls>>
    /\ UNCHANGED notLayoutVars

\* after the loop: "Even at max compression, doesn't fit", return anyway
LayoutOverflow ==
    /\ lpc = "try"
    /\ compression >= 5
    /\ layout_result' = [total_height |-> CalculateLayout(resume_data, settings),
                         fits_on_page |-> FALSE, compression_level |-> 4,
                         settings |-> settings]
    /\ lpc' = "returned"
    /\ UNCHANGED <<settings, compression_level, resume_data, compression, measurements,
                   calls>>
    /\ UNCHANGED notLayoutVars

\* ------------------------------------------------------------------ SemanticMatcher
\* results.append({"bullet", "original_index", "score", "rank": 0}) for each bullet
ScoredBullets(bullets, sims) ==
    [i \in 1..Len(bullets) |->
        [bullet |-> bullets[i], original_index |-> i - 1, score |-> sims[bullets[i]],
         rank |-> 0]]

\* for rank, result in enumerate(results, start=1): result["rank"] = rank
AssignRanks(sorted) == [i \in 1..Len(sorted) |-> [sorted[i] EXCEPT !.rank = i]]

\* compute_similarity: [] for no bullets, else score, sort by score, rank
ComputeSimilarityResult(bullets, sims) ==
    IF bullets = <<>> THEN <<>>
    ELSE AssignRanks(SortByScoreDesc(ScoredBullets(bullets, sims)))

\* the job descriptions tried; "" is the empty context
JobDescriptions == {"", "a", "a c"}

\* the features (n-grams kept by the vectorizer) of a text
Features(text) ==
    CASE text = "" -> {}
      [] text = "a c" -> {"a", "c"}
      [] OTHER -> {text}

\* the vocabulary TfidfVectorizer.fit_transform(texts) learns
FittedVocabulary(texts) == UNION {Features(texts[i]) : i \in 1..Len(texts)}

\* encode(texts) raises: fit_transform finds an empty vocabulary (TF-IDF only)
EncodeRaises(texts, embeddings) == ~embeddings /\ FittedVocabulary(texts) = {}

\* cosine_similarity raises: the two fits gave matrices of different widths
WidthsDiffer(bullets, job, embeddings) ==
    /\ ~embeddings
    /\ Cardinality(FittedVocabulary(bullets)) # Cardinality(FittedVocabulary(<<job>>))

MatcherInit ==
    /\ resume_bullets \in UNION {[1..n -> Texts] : n \in 0..MaxScored}
    /\ similarities \in [Texts -> 0..MaxScore]
    /\ job_description \in JobDescriptions
    /\ use_embeddings \in BOOLEAN
    /\ vocabulary = {}
    /\ encode_calls = 0
    /\ results = <<>>
    /\ mpc = "call"

\* the matcher is not exercised
MatcherOff ==
    /\ resume_bullets = <<>>
    /\ similarities = [t \in Texts |-> 0]
    /\ job_description = ""
    /\ use_embeddings = TRUE
    /\ vocabulary = {}
    /\ encode_calls = 0
    /\ results = <<>>
    /\ mpc = "off"

\* mutant of ComputeSimilarityEarly: the guard "if not resume_bullets" is gone, the
\* job description and the empty list are encoded
ComputeSimilarityEarlyNoGuard ==
    /\ mpc = "call"
    /\ \/ /\ resume_bullets = <<>>
          /\ ~EncodeRaises(<<job_description>>, use_embeddings)
          /\ mpc' = IF use_embeddings THEN "returned" ELSE "raised"
          /\ encode_calls' = 2
       \/ /\ EncodeRaises(<<job_description>>, use_embeddings)
          /\ mpc' = "raised"
          /\ encode_calls' = 1
    /\ results' = <<>>
    /\ UNCHANGED <<resume_bullets, similarities, job_description, use_embeddings,
                   vocabulary>>
    /\ UNCHANGED notMatcherVars

\* compute_similarity leaves before the bullets are encoded: "if not resume_bullets:
\* return []", or the encode of the job description raises
ComputeSimilarityEarly ==
    /\ mpc = "call"
    /\ \/ /\ resume_bullets = <<>>
          /\ mpc' = "returned"
          /\ encode_calls' = 0
       \/ /\ resume_bullets # <<>>
          /\ EncodeRaises(<<job_description>>, use_embeddings)
          /\ mpc' = "raised"
          /\ encode_calls' = 1
    /\ results' = <<>>
    /\ UNCHANGED <<resume_bullets, similarities, job_description, use_embeddings,
                   vocabulary>>
    /\ UNCHANGED notMatcherVars

\* compute_similarity(resume_bullets, job_description) encodes the job description
\* and the bullets, then returns the ranked list or leaves by cosine_similarity raising
ComputeSimilarity ==
    /\ mpc = "call"
    /\ resume_bullets # <<>>
    /\ ~EncodeRaises(<<job_description>>, use_embeddings)
    /\ encode_calls' = 2
    /\ vocabulary' = IF use_embeddings THEN vocabulary
                     ELSE FittedVocabulary(resume_bullets)
    /\ IF EncodeRaises(resume_bullets, use_embeddings)
          \/ WidthsDiffer(resume_bullets, job_description, use_embeddings)
       THEN results' = <<>> /\ mpc' = "raised"
       ELSE /\ results' = ComputeSimilarityResult(resume_bullets, similarities)
            /\ mpc' = "returned"
    /\ UNCHANGED <<resume_bullets, similarities, job_description, use_embeddings>>
    /\ UNCHANGED notMatcherVars

\* ------------------------------------------------------------------ bullet_classifier
\* class BulletCategory(Enum), in definition order (the order of "for category in
\* BulletCategory" and of the keys of the scores dict)
BulletCategory ==
    <<"achievement", "leadership", "technical", "project", "responsibility", "education">>

\* the keys of CATEGORY_INDICATORS (education has no entry)
IndicatorCategories ==
    {"achievement", "leadership", "technical", "project", "responsibility"}

\* the categories whose "patterns" list is not empty
PatternCategories == {"achievement", "leadership", "technical"}

\* what a bullet can match: keywords of each category, patterns of each category
KeywordHits == [IndicatorCategories -> 0..MaxKeywordHits]

PatternHits ==
    {p \in [IndicatorCategories -> 0..MaxPatternHits] :
        \A c \in IndicatorCategories \ PatternCategories : p[c] = 0}

\* scores[category] += 2
PatternWeight == 2

\* the scores dict after the loops: 0, += 1 for a keyword, += 2 for a pattern
CategoryScores(kw, pt) ==
    [i \in 1..Len(BulletCategory) |->
        IF BulletCategory[i] \in IndicatorCategories
        THEN kw[BulletCategory[i]] + pt[BulletCategory[i]] * PatternWeight
        ELSE 0]

\* max(scores.values())
MaxValue(scores) ==
    CHOOSE v \in {scores[i] : i \in 1..Len(scores)} :
        \A i \in 1..Len(scores) : scores[i] <= v

\* mutant of FirstMaxKey: the last key with the highest value
LastMaxKey(scores) ==
    BulletCategory[CHOOSE i \in 1..Len(scores) :
        /\ scores[i] = MaxValue(scores)
        /\ \A j \in (i + 1)..Len(scores) : scores[j] < scores[i]]

\* max(scores, key=scores.get): the first key, in the dict's order, with the
\* highest value
FirstMaxKey(scores) ==
    BulletCategory[CHOOSE i \in 1..Len(scores) :
        /\ scores[i] = MaxValue(scores)
        /\ \A j \in 1..(i - 1) : scores[j] < scores[i]]

\* classify_bullet
ClassifyBullet(kw, pt) ==
    IF MaxValue(CategoryScores(kw, pt)) > 0
    THEN FirstMaxKey(CategoryScores(kw, pt))
    ELSE "responsibility"

ClassifierInit ==
    /\ keyword_hits \in KeywordHits
    /\ pattern_hits \in PatternHits
    /\ category = "none"
    /\ cpc = "call"

\* the classifier is not exercised
ClassifierOff ==
    /\ keyword_hits = [c \in IndicatorCategories |-> 0]
    /\ pattern_hits = [c \in IndicatorCategories |-> 0]
    /\ category = "none"
    /\ cpc = "off"

\* classify_bullet(bullet) runs and returns
ClassifyBulletCall ==
    /\ cpc = "call"
    /\ category' = ClassifyBullet(keyword_hits, pattern_hits)
    /\ cpc' = "returned"
    /\ UNCHANGED <<keyword_hits, pattern_hits>>
    /\ UNCHANGED notClassifierVars

\* ------------------------------------------------------------------ classify_bullets
\* the bullet texts tried
BalanceTexts == {"increased", "grew 3x", "led", "built", "worked"}

\* the keywords of each category found in a text
TextKeywordHits(text) ==
    [c \in IndicatorCategories |->
        IF \/ c = "achievement" /\ text \in {"increased", "grew 3x"}
           \/ c = "leadership" /\ text = "led"
           \/ c = "technical" /\ text = "built"
        THEN 1 ELSE 0]

\* the patterns of each category that match a text (r'\d+x' matches "3x")
TextPatternHits(text) ==
    [c \in IndicatorCategories |->
        IF c = "achievement" /\ text = "grew 3x" THEN 1 ELSE 0]

\* category = classify_bullet(bullet)
CategoryOf(text) == ClassifyBullet(TextKeywordHits(text), TextPatternHits(text))

\* categorized[category].append({"text", "index", "category"}) in input order
ClassifyBullets(bs) ==
    [c \in {BulletCategory[i] : i \in 1..Len(BulletCategory)} |->
        LET OfCategory(b) == b.category = c
        IN  SelectSeq([i \in 1..Len(bs) |->
                          [text |-> bs[i], index |-> i - 1, category |-> CategoryOf(bs[i])]],
                      OfCategory)]

\* ------------------------------------------------------------------ balance_categories
\* mutant of priority_order: the categories are visited from the last to the first
priority_order_reversed ==
    <<"education", "responsibility", "project", "technical", "leadership", "achievement">>

priority_order ==
    <<"achievement", "leadership", "technical", "project", "responsibility", "education">>

\* target_distribution, in percent
target_distribution ==
    [achievement |-> 40, leadership |-> 20, technical |-> 25, project |-> 10,
     responsibility |-> 5, education |-> 0]

\* mutant of TargetCount: the share of the cap rounded up
TargetCountRoundedUp(cat, cap) == (cap * target_distribution[cat] + 99) \div 100

\* int(max_bullets * target_distribution[cat]): the float product truncated, which
\* for these shares and a cap of 0..100000 is the exact floor
TargetCount(cat, cap) == (cap * target_distribution[cat]) \div 100

\* s[:n] for n >= 0
Take(s, n) == SubSeq(s, 1, IF n < Len(s) THEN n ELSE Len(s))

\* the first loop: for category in priority_order: selected.extend(available[:target])
RECURSIVE SelectQuota(_, _, _)
SelectQuota(cats, cap, i) ==
    IF i > Len(priority_order) THEN <<>>
    ELSE Take(cats[priority_order[i]], TargetCount(priority_order[i], cap))
         \o SelectQuota(cats, cap, i + 1)

\* mutant of NotSelected: a bullet counts as selected when its text is
NotSelectedByText(available, sel) ==
    LET NotIn(b) == \A k \in 1..Len(sel) : sel[k].text # b.text
    IN  SelectSeq(available, NotIn)

\* [b for b in available if b not in selected]
NotSelected(available, sel) ==
    LET NotIn(b) == \A k \in 1..Len(sel) : sel[k] # b
    IN  SelectSeq(available, NotIn)

\* the second loop, from category i on, with remaining > 0 slots
RECURSIVE FillRemaining(_, _, _, _)
FillRemaining(cats, sel, remaining, i) ==
    IF i > Len(priority_order) THEN sel
    ELSE LET available == NotSelected(cats[priority_order[i]], sel)
             take == IF remaining < Len(available) THEN remaining ELSE Len(available)
         IN  IF remaining - take = 0
             THEN sel \o Take(available, take)
             ELSE FillRemaining(cats, sel \o Take(available, take), remaining - take, i + 1)

\* the score tables tried: all equal, one text below the others, one text above
ScoreTables ==
    {[t \in BalanceTexts |-> 0],
     [t \in BalanceTexts |-> IF t = "increased" THEN 0 ELSE MaxScore],
     [t \in BalanceTexts |-> IF t = "increased" THEN MaxScore ELSE 0]}

BalanceInit ==
    /\ input_bullets \in UNION {[1..n -> BalanceTexts] : n \in 0..MaxBalanced}
    /\ score_map \in ScoreTables
    /\ max_bullets \in 0..MaxCap
    /\ categorized = <<>>
    /\ selected = <<>>
    /\ quota_selected = <<>>
    /\ balanced = <<>>
    /\ bpc = "classify"

\* classify_bullets and balance_categories are not exercised
BalanceOff ==
    /\ input_bullets = <<>>
    /\ score_map = [t \in BalanceTexts |-> 0]
    /\ max_bullets = 0
    /\ categorized = <<>>
    /\ selected = <<>>
    /\ quota_selected = <<>>
    /\ balanced = <<>>
    /\ bpc = "off"

\* categorized = classify_bullets(bullets)
ClassifyBulletsCall ==
    /\ bpc = "classify"
    /\ categorized' = ClassifyBullets(input_bullets)
    /\ bpc' = "quota"
    /\ UNCHANGED <<input_bullets, score_map, max_bullets, selected, quota_selected,
                   balanced>>
    /\ UNCHANGED notBalanceVars

\* balance_categories up to the end of its first loop
BalanceQuota ==
    /\ bpc = "quota"
    /\ selected' = SelectQuota(categorized, max_bullets, 1)
    /\ quota_selected' = selected'
    /\ bpc' = "fill"
    /\ UNCHANGED <<input_bullets, score_map, max_bullets, categorized, balanced>>
    /\ UNCHANGED notBalanceVars

\* balance_categories from "remaining = max_bullets - len(selected)" to its return
BalanceFill ==
    /\ bpc = "fill"
    /\ selected' = IF max_bullets - Len(selected) > 0
                   THEN FillRemaining(categorized, selected,
                                      max_bullets - Len(selected), 1)
                   ELSE selected
    /\ balanced' = [k \in 1..Len(Take(selected', max_bullets)) |-> selected'[k].text]
    /\ bpc' = "returned"
    /\ UNCHANGED <<input_bullets, score_map, max_bullets, categorized, quota_selected>>
    /\ UNCHANGED notBalanceVars

\* ------------------------------------------------------------------ layout.LayoutEngine
\* Lengths are in 1/120000 inch, font sizes in hundredths of a point.

\* self.max_compression
max_compression == 5

\* ModernTechTemplate(config): ResumeTemplate's page and margins, its own spacings
ModernTechTemplate ==
    [page_height |-> 1320000, margin_top |-> 60000, margin_bottom |-> 60000,
     section_spacing |-> 18000, entry_spacing |-> 14400, bullet_spacing |-> 6000]

\* _apply_compression: *= 0.85, *= 0.80, *= 0.75, then at level 5 *= 0.70 twice
ApplyGridCompression(t, level) ==
    LET section1 == IF level >= 1 THEN (t.section_spacing * 85) \div 100
                    ELSE t.section_spacing
        entry2 == IF level >= 2 THEN (t.entry_spacing * 80) \div 100
                  ELSE t.entry_spacing
        bullet3 == IF level >= 3 THEN (t.bullet_spacing * 75) \div 100
                   ELSE t.bullet_spacing
    IN  [t EXCEPT !.section_spacing = IF level >= 5 THEN (section1 * 70) \div 100
                                      ELSE section1,
                  !.entry_spacing = IF level >= 5 THEN (entry2 * 70) \div 100
                                    ELSE entry2,
                  !.bullet_spacing = bullet3]

\* font_size *= 0.95 when self.compression_level >= 4, in percent
FontScale(level) == IF level >= 4 THEN 95 ELSE 100

\* _render_text: line_height = font_size / 72.0 * 1.2
TextHeight(font_size, level) == ((font_size * FontScale(level)) \div 100) * 20

\* _render_header through _render_block: name, contact line, margin_bottom
HeaderHeight(header, t, level) ==
    (IF header.name THEN TextHeight(1600, level) ELSE 0)
    + (IF header.contact THEN TextHeight(900, level) ELSE 0)
    + t.section_spacing

\* _render_summary: the title, the text, margin_bottom
SummaryHeight(t, level) ==
    TextHeight(1100, level) + TextHeight(1000, level) + t.section_spacing

\* one experience entry: the two-column row (company and title in the taller
\* column, margin_bottom 0.05), its BulletList when it has bullets, the spacing block
GridEntryHeight(n_bullets, t, level) ==
    2 * TextHeight(1000, level) + 6000
    + n_bullets * (TextHeight(1000, level) + t.bullet_spacing)
    + t.entry_spacing

\* _render_experience: the title, the entries, margin_bottom
ExperienceHeight(entries, t, level) ==
    TextHeight(1100, level)
    + SumSeq([i \in 1..Len(entries) |-> GridEntryHeight(entries[i], t, level)])
    + t.section_spacing

\* template.render and _render_block from y = margin_top: total_height
GridTotalHeight(doc, t, level) ==
    t.margin_top
    + HeaderHeight(doc.header, t, level)
    + (IF doc.summary THEN SummaryHeight(t, level) ELSE 0)
    + (IF doc.experience # <<>> THEN ExperienceHeight(doc.experience, t, level) ELSE 0)

\* content_height <= self.template.page_height
GridFitsOnPage(total_height, t) == total_height + t.margin_bottom <= t.page_height

\* _paginate: int(total_height / page_height) + 1
PaginatePageCount(total_height, t) ==
    total_height \div (t.page_height - t.margin_top - t.margin_bottom) + 1

\* the documents laid out: a header with or without name and contact line, with or
\* without a summary, experience entries given by their numbers of bullets
Canonicals ==
    {[header |-> [name |-> h, contact |-> h], summary |-> sm, experience |-> e] :
        h \in BOOLEAN, sm \in BOOLEAN,
        e \in UNION {[1..n -> {12 + 46 * k : k \in 0..MaxGridBullets}] :
                         n \in 0..MaxGridEntries}}

NoGridResult ==
    [total_height |-> 0, fits_on_page |-> FALSE, compression_level |-> 0,
     page_count |-> 0]

\* LayoutEngine(): the template is made, compression_level = 0
GridInit ==
    /\ canonical \in Canonicals
    /\ template = ModernTechTemplate
    /\ grid_level = 0
    /\ grid_compression = 0
    /\ compressed = <<>>
    /\ grid_measured = <<>>
    /\ grid_result = NoGridResult
    /\ gpc = "idle"

\* the grid engine is not exercised
GridOff ==
    /\ canonical = [header |-> [name |-> FALSE, contact |-> FALSE],
                    summary |-> FALSE, experience |-> <<>>]
    /\ template = ModernTechTemplate
    /\ grid_level = 0
    /\ grid_compression = 0
    /\ compressed = <<>>
    /\ grid_measured = <<>>
    /\ grid_result = NoGridResult
    /\ gpc = "off"

\* layout_resume(canonical) is called
GridLayoutResume ==
    /\ gpc = "idle"
    /\ gpc' = "try"
    /\ grid_compression' = 0
    /\ UNCHANGED <<canonical, template, grid_level, compressed, grid_measured,
                   grid_result>>
    /\ UNCHANGED notGridVars

\* what one iteration measures: the settings of the template it renders with (the
\* one made after _apply_compression), the font scale, the height
GridMeasurement(doc, level) ==
    [section_spacing |-> ModernTechTemplate.section_spacing,
     entry_spacing |-> ModernTechTemplate.entry_spacing,
     bullet_spacing |-> ModernTechTemplate.bullet_spacing,
     font_scale |-> FontScale(level),
     total_height |-> GridTotalHeight(doc, ModernTechTemplate, level)]

\* the part of an iteration every iteration runs: compression_level is set,
\* _apply_compression changes the current template, a new template replaces it,
\* the document is rendered and measured
GridIteration ==
    /\ gpc = "try"
    /\ grid_compression <= max_compression
    /\ grid_level' = grid_compression
    /\ compressed' = Append(compressed, ApplyGridCompression(template, grid_compression))
    /\ template' = ModernTechTemplate
    /\ grid_measured' = Append(grid_measured, GridMeasurement(canonical, grid_compression))
    /\ UNCHANGED canonical
    /\ UNCHANGED notGridVars

\* an iteration whose measurement fits: return with page_count 1
GridFits ==
    /\ GridIteration
    /\ GridFitsOnPage(GridTotalHeight(canonical, ModernTechTemplate, grid_compression),
                      ModernTechTemplate)
    /\ grid_result' =
          [total_height |-> GridTotalHeight(canonical, ModernTechTemplate, grid_compression),
           fits_on_page |-> TRUE, compression_level |-> grid_compression,
           page_count |-> 1]
    /\ gpc' = "returned"
    /\ UNCHANGED grid_compression

\* an iteration whose measurement overflows, with a level left to try
GridCompress ==
    /\ GridIteration
    /\ grid_compression < max_compression
    /\ ~GridFitsOnPage(GridTotalHeight(canonical, ModernTechTemplate, grid_compression),
                       ModernTechTemplate)
    /\ grid_compression' = grid_compression + 1
    /\ UNCHANGED <<grid_result, gpc>>

\* the last iteration overflows: return self._paginate(elements, total_height)
GridPaginate ==
    /\ GridIteration
    /\ grid_compression = max_compression
    /\ ~GridFitsOnPage(GridTotalHeight(canonical, ModernTechTemplate, grid_compression),
                       ModernTechTemplate)
    /\ grid_result' =
          [total_height |-> GridTotalHeight(canonical, ModernTechTemplate, grid_compression),
           fits_on_page |-> FALSE, compression_level |-> grid_compression,
           page_count |-> PaginatePageCount(
               GridTotalHeight(canonical, ModernTechTemplate, grid_compression),
               ModernTechTemplate)]
    /\ gpc' = "returned"
    /\ UNCHANGED grid_compression

\* ------------------------------------------------------------------ concurrent runs
\* Two optimize_resume calls in one process, interleaved at the steps that read or
\* write what they share: the global _matcher_instance and the matcher's model.

\* the two runs
Runs == {1, 2}

\* the matchers that can exist: each run constructs at most one
Matchers == {1, 2}

\* what a run is called with
RunJobs == {"a", "c"}

RunBulletLists == {<<"a">>, <<"a", "c">>}

\* an encode result: the texts encoded, and the texts the model that transformed
\* them was fitted on (the texts themselves for a sentence transformer)
Embedding(texts, fit) == [texts |-> texts, fit |-> fit]

NoEmbedding == Embedding(<<>>, <<>>)

\* the module is imported; main.py's startup event may already have called
\* get_semantic_matcher()
RunInit ==
    /\ embeddings_available \in BOOLEAN
    /\ \/ matcher_instance = 0 /\ instances_created = 0
       \/ matcher_instance = 1 /\ instances_created = 1
    /\ fitted = [i \in Matchers |-> <<>>]
    /\ run_pc = [r \in Runs |-> "get"]
    /\ run_matcher = [r \in Runs |-> 0]
    /\ run_job \in [Runs -> RunJobs]
    /\ run_bullets \in [Runs -> RunBulletLists]
    /\ job_embedding = [r \in Runs |-> NoEmbedding]
    /\ bullet_embeddings = [r \in Runs |-> NoEmbedding]

\* no run is exercised
RunOff ==
    /\ embeddings_available = TRUE
    /\ matcher_instance = 0
    /\ instances_created = 0
    /\ fitted = [i \in Matchers |-> <<>>]
    /\ run_pc = [r \in Runs |-> "off"]
    /\ run_matcher = [r \in Runs |-> 0]
    /\ run_job = [r \in Runs |-> "a"]
    /\ run_bullets = [r \in Runs |-> <<"a">>]
    /\ job_embedding = [r \in Runs |-> NoEmbedding]
    /\ bullet_embeddings = [r \in Runs |-> NoEmbedding]

\* get_semantic_matcher: "if _matcher_instance is None"
GetSemanticMatcherTest(r) ==
    /\ run_pc[r] = "get"
    /\ run_pc' = [run_pc EXCEPT ![r] = IF matcher_instance = 0 THEN "create"
                                       ELSE "return"]
    /\ UNCHANGED <<matcher_instance, instances_created, embeddings_available, fitted,
                   run_matcher, run_job, run_bullets, job_embedding, bullet_embeddings>>
    /\ UNCHANGED notRunVars

\* get_semantic_matcher: "_matcher_instance = SemanticMatcher()"
GetSemanticMatcherCreate(r) ==
    /\ run_pc[r] = "create"
    /\ instances_created' = instances_created + 1
    /\ matcher_instance' = instances_created + 1
    /\ run_pc' = [run_pc EXCEPT ![r] = "return"]
    /\ UNCHANGED <<embeddings_available, fitted, run_matcher, run_job, run_bullets,
                   job_embedding, bullet_embeddings>>
    /\ UNCHANGED notRunVars

\* get_semantic_matcher: "return _matcher_instance", bound to the run's matcher
GetSemanticMatcherReturn(r) ==
    /\ run_pc[r] = "return"
    /\ run_matcher' = [run_matcher EXCEPT ![r] = matcher_instance]
    /\ run_pc' = [run_pc EXCEPT ![r] = "encode_job"]
    /\ UNCHANGED <<matcher_instance, instances_created, embeddings_available, fitted,
                   run_job, run_bullets, job_embedding, bullet_embeddings>>
    /\ UNCHANGED notRunVars

\* the texts the run encodes at its position
EncodeTexts(r) ==
    IF run_pc[r] \in {"encode_job", "transform_job"} THEN <<run_job[r]>>
    ELSE run_bullets[r]

\* encode with a sentence transformer: self.model.encode(texts) changes nothing
EncodeWithEmbeddings(r) ==
    /\ embeddings_available
    /\ run_pc[r] \in {"encode_job", "encode_bullets"}
    /\ IF run_pc[r] = "encode_job"
       THEN /\ job_embedding' = [job_embedding EXCEPT
                                    ![r] = Embedding(EncodeTexts(r), EncodeTexts(r))]
            /\ run_pc' = [run_pc EXCEPT ![r] = "encode_bullets"]
            /\ UNCHANGED bullet_embeddings
       ELSE /\ bullet_embeddings' = [bullet_embeddings EXCEPT
                                        ![r] = Embedding(EncodeTexts(r), EncodeTexts(r))]
            /\ run_pc' = [run_pc EXCEPT ![r] = "returned"]
            /\ UNCHANGED job_embedding
    /\ UNCHANGED <<matcher_instance, instances_created, embeddings_available, fitted,
                   run_matcher, run_job, run_bullets>>
    /\ UNCHANGED notRunVars

\* encode with TF-IDF, first half of self.model.fit_transform(texts): the run's
\* matcher's vectorizer is fitted on the texts
EncodeFit(r) ==
    /\ ~embeddings_available
    /\ run_pc[r] \in {"encode_job", "encode_bullets"}
    /\ fitted' = [fitted EXCEPT ![run_matcher[r]] = EncodeTexts(r)]
    /\ run_pc' = [run_pc EXCEPT ![r] = IF run_pc[r] = "encode_job" THEN "transform_job"
                                       ELSE "transform_bullets"]
    /\ UNCHANGED <<matcher_instance, instances_created, embeddings_available,
                   run_matcher, run_job, run_bullets, job_embedding, bullet_embeddings>>
    /\ UNCHANGED notRunVars

\* encode with TF-IDF, second half of fit_transform: the texts are transformed with
\* the weights the vectorizer holds now
EncodeTransform(r) ==
    /\ run_pc[r] \in {"transform_job", "transform_bullets"}
    /\ IF run_pc[r] = "transform_job"
       THEN /\ job_embedding' = [job_embedding EXCEPT
                                    ![r] = Embedding(EncodeTexts(r), fitted[run_matcher[r]])]
            /\ run_pc' = [run_pc EXCEPT ![r] = "encode_bullets"]
            /\ UNCHANGED bullet_embeddings
       ELSE /\ bullet_embeddings' = [bullet_embeddings EXCEPT
                                        ![r] = Embedding(EncodeTexts(r),
                                                         fitted[run_matcher[r]])]
            /\ run_pc' = [run_pc EXCEPT ![r] = "returned"]
            /\ UNCHANGED job_embedding
    /\ UNCHANGED <<matcher_instance, instances_created, embeddings_available, fitted,
                   run_matcher, run_job, run_bullets>>
    /\ UNCHANGED notRunVars

\* the scores are computed from the two encode results
RunScores(r) == <<job_embedding[r], bullet_embeddings[r]>>

\* the scores of the run when no other run is in the process
ScoresAlone(r) ==
    <<Embedding(<<run_job[r]>>, <<run_job[r]>>),
      Embedding(run_bullets[r], run_bullets[r])>>

\* ------------------------------------------------------------------ FontMetrics
\* Widths are in character widths: every character, the space included, is one wide.

\* measure_text_width of a word of n characters
MeasureWord(n) == n

\* measure_text_width(" ".join(line)): the words and the spaces between them
MeasureLine(line) == SumSeq(line) + (IF line = <<>> THEN 0 ELSE Len(line) - 1)

\* if current_line: lines.append(" ".join(current_line))
FlushLine(ls, current_line) ==
    IF current_line # <<>> THEN Append(ls, current_line) ELSE ls

RECURSIVE LineBreaksFrom(_, _, _, _, _, _)
\* the for loop of calculate_line_breaks from word i on, then the final flush
LineBreaksFrom(ws, i, ls, current_line, current_width, max_width) ==
    IF i > Len(ws) THEN FlushLine(ls, current_line)
    ELSE LET word_width == MeasureWord(ws[i]) + 1
         IN  IF current_width + word_width <= max_width
             THEN LineBreaksFrom(ws, i + 1, ls, Append(current_line, ws[i]),
                                 current_width + word_width, max_width)
             ELSE LineBreaksFrom(ws, i + 1, FlushLine(ls, current_line), <<ws[i]>>,
                                 word_width, max_width)

\* calculate_line_breaks(text, max_width_inches)
CalculateLineBreaks(ws, max_width) == LineBreaksFrom(ws, 1, <<>>, <<>>, 0, max_width)

BreakInit ==
    /\ words \in UNION {[1..n -> 1..MaxWordLen] : n \in 0..MaxWords}
    /\ max_width_inches \in 0..MaxWidth
    /\ lines = <<>>
    /\ fpc = "call"

\* calculate_line_breaks is not exercised
BreakOff ==
    /\ words = <<>>
    /\ max_width_inches = 0
    /\ lines = <<>>
    /\ fpc = "off"

\* calculate_line_breaks is called and returns lines
CalculateLineBreaksCall ==
    /\ fpc = "call"
    /\ lines' = CalculateLineBreaks(words, max_width_inches)
    /\ fpc' = "returned"
    /\ UNCHANGED <<words, max_width_inches>>
    /\ UNCHANGED notBreakVars

\* ------------------------------------------------------------------ OnePageLayoutEngine
\* Heights are in 1/7200 inch, line heights in tenths.

\* LayoutConfig.target_height = letter[1]: reportlab's letter is (8.5 * inch, 11 * inch)
\* with inch = 72.0, a height of 792.0 points; calculate_layout compares it with
\* heights in inches
target_height == 792 * 7200

\* (font_size / 72.0) * line_height
LineHeightInches(font_size, line_height) == font_size * line_height * 10

\* _estimate_content_height(resume_data, font_size, line_height, margins, section_spacing)
EstimateContentHeight(data, font_size, line_height, margins, section_spacing) ==
    LET line == LineHeightInches(font_size, line_height)
        summary_chars == IF data.summary > 80 THEN data.summary ELSE 80
    IN  margins * 2
        + line * 3 + section_spacing
        + (IF data.summary > 0 THEN (line * summary_chars) \div 80 + section_spacing
           ELSE 0)
        + SumSeq([i \in 1..Len(data.experience) |->
                     line * 2 + line * data.experience[i] + section_spacing \div 2])
        + section_spacing
        + SumSeq([i \in 1..Len(data.projects) |->
                     line + line * data.projects[i] + section_spacing \div 2])
        + section_spacing
        + line * data.education * 2
        + section_spacing
        + line * data.skills

\* _apply_compression(current_height, preferred_font_size): light below one inch of
\* overflow, moderate below two, else aggressive
OnePageCompression(current_height, preferred_font_size) ==
    LET overflow == current_height - target_height
    IN  IF overflow < 7200
        THEN [font_size |-> preferred_font_size, line_height |-> 13, margins |-> 4320,
              section_spacing |-> 1080, compression_level |-> "light"]
        ELSE IF overflow < 14400
        THEN [font_size |-> IF preferred_font_size - 1 > 9 THEN preferred_font_size - 1
                            ELSE 9,
              line_height |-> 12, margins |-> 3600, section_spacing |-> 720,
              compression_level |-> "moderate"]
        ELSE [font_size |-> 9, line_height |-> 11, margins |-> 2880,
              section_spacing |-> 576, compression_level |-> "aggressive"]

\* calculate_layout(resume_data, current_font_size)
CalculateLayoutMetrics(data, font) ==
    LET first == EstimateContentHeight(data, font, 15, 5400, 1440)
        used == IF first > target_height THEN OnePageCompression(first, font)
                ELSE [font_size |-> font, line_height |-> 15, margins |-> 5400,
                      section_spacing |-> 1440, compression_level |-> "none"]
        estimated_height ==
            IF first > target_height
            THEN EstimateContentHeight(data, used.font_size, used.line_height,
                                       used.margins, used.section_spacing)
            ELSE first
    IN  [estimated_height |-> estimated_height, font_size |-> used.font_size,
         line_height |-> used.line_height, margins |-> used.margins,
         section_spacing |-> used.section_spacing,
         fits_one_page |-> (estimated_height <= target_height),
         compression_level |-> used.compression_level]

\* the resumes given: the length of the summary (0: none), the bullets of each job
\* and project, the numbers of education entries and skill categories
Contents ==
    {[summary |-> sm, experience |-> e, projects |-> pr, education |-> ed, skills |-> sk] :
        sm \in {0, 40, 160},
        e \in UNION {[1..n -> {10 * k : k \in 0..MaxTens}] : n \in 0..2},
        pr \in {<<>>, <<2>>}, ed \in {0, 1}, sk \in {0, 2}}

NoMetrics ==
    [estimated_height |-> 0, font_size |-> 0, line_height |-> 0, margins |-> 0,
     section_spacing |-> 0, fits_one_page |-> FALSE, compression_level |-> "none"]

OnePageInit ==
    /\ content \in Contents
    /\ current_font_size \in 9..12
    /\ metrics = NoMetrics
    /\ opc = "call"

\* the one-page engine is not exercised
OnePageOff ==
    /\ content = [summary |-> 0, experience |-> <<>>, projects |-> <<>>,
                  education |-> 0, skills |-> 0]
    /\ current_font_size = 10
    /\ metrics = NoMetrics
    /\ opc = "off"

\* calculate_layout is called and returns the metrics
CalculateLayoutCall ==
    /\ opc = "call"
    /\ metrics' = CalculateLayoutMetrics(content, current_font_size)
    /\ opc' = "returned"
    /\ UNCHANGED <<content, current_font_size>>
    /\ UNCHANGED notOnePageVars

\* ------------------------------------------------------------------ optimize_resume, step 8
\* mutant of ReorderBullets: the sort without reverse=True
ReorderBulletsAscending(entry_bullets, ranks) ==
    LET sorted == SortByScoreDesc([i \in 1..Len(entry_bullets) |->
                      [text |-> entry_bullets[i],
                       score |-> ScoreMapGet(ranks, entry_bullets[i]), orig |-> i]])
    IN  [k \in 1..Len(sorted) |-> sorted[Len(sorted) + 1 - k]]

\* if exp_bullets: exp["bullets"] = sorted(exp_bullets,
\*     key=lambda b: bullet_ranks.get(b, 0), reverse=True)
\* The code's list holds the texts; score and orig (the bullet's index in the entry
\* as passed) are history fields.
ReorderBullets(entry_bullets, ranks) ==
    SortByScoreDesc([i \in 1..Len(entry_bullets) |->
        [text |-> entry_bullets[i], score |-> ScoreMapGet(ranks, entry_bullets[i]),
         orig |-> i]])

\* the loops over parsed_resume["experience"] and parsed_resume["projects"]: each
\* entry keeps its other keys
ReorderResume(parsed, ranks) ==
    [experience |-> [i \in 1..Len(parsed.experience) |->
        [parsed.experience[i] EXCEPT
            !.bullets = ReorderBullets(parsed.experience[i].bullets, ranks)]],
     projects |-> [i \in 1..Len(parsed.projects) |->
        [parsed.projects[i] EXCEPT
            !.bullets = ReorderBullets(parsed.projects[i].bullets, ranks)]]]

NotReordered == [experience |-> <<>>, projects |-> <<>>]

OptimizeInit ==
    /\ optimize_input \in ShortResumes
    /\ semantic_results \in ScoreLists
    /\ optimized_resume = NotReordered
    /\ xpc = "step8"

\* optimize_resume is not exercised
OptimizeOff ==
    /\ optimize_input = NotReordered
    /\ semantic_results = <<>>
    /\ optimized_resume = NotReordered
    /\ xpc = "off"

\* step 8 of optimize_resume
ReorderStep ==
    /\ xpc = "step8"
    /\ optimized_resume' = ReorderResume(optimize_input, semantic_results)
    /\ xpc' = "reordered"
    /\ UNCHANGED <<optimize_input, semantic_results>>
    /\ UNCHANGED notOptimizeVars

\* ------------------------------------------------------------------ reconstruct_resume
\* A line of the text is [kind, text]: "header" (its upper case is a section name),
\* "hard" (is_hard_coded_line is true: a company, a date, a location), "skill" (a line
\* with a colon), "blank", "bullet" (anything else). Lines are not indented.

\* current_section = line_stripped.lower()
Lower(header) ==
    CASE header = "EXPERIENCE" -> "experience"
      [] header = "PROJECTS" -> "projects"
      [] header = "SKILLS" -> "skills"
      [] OTHER -> "education"

\* is_hard_coded_line(line): a section header is all upper case
IsHardCodedLine(line) == line.kind \in {"hard", "header"}

\* the section a line is in: that of the last header above it
SectionOf(text_lines, i) ==
    LET above == {j \in 1..(i - 1) : text_lines[j].kind = "header"}
    IN  IF above = {} THEN "none"
        ELSE Lower(text_lines[CHOOSE j \in above : \A k \in above : k <= j].text)

\* get_original_bullet_counts / parse_experience_entry: the bullets of a section are
\* its lines that are not blank and not hard-coded, in the order of the text
SectionBullets(text_lines, section) ==
    LET at == {i \in 1..Len(text_lines) :
                  /\ SectionOf(text_lines, i) = section
                  /\ text_lines[i].kind # "blank"
                  /\ ~IsHardCodedLine(text_lines[i])}
    IN  [k \in 1..Cardinality(at) |->
            text_lines[CHOOSE i \in at : Cardinality({j \in at : j < i}) = k - 1].text]

\* optimize_bullets_with_length_constraint(original_bullets, scored_bullets,
\* max_bullets): sorted by score, highest first, the first max_bullets, their texts
OptimizeBulletsWithLengthConstraint(scored_bullets, cap) ==
    LET sorted_bullets == SortByScoreDesc(scored_bullets)
        n == IF cap < Len(sorted_bullets) THEN cap ELSE Len(sorted_bullets)
    IN  [k \in 1..n |-> sorted_bullets[k].bullet]

\* the optimized bullets of the experience and projects sections of a text, each
\* capped at the section's original count
OptimizedBulletsOf(text_lines, score_of) ==
    [section \in {"experience", "projects"} |->
        LET original_bullets == SectionBullets(text_lines, section)
        IN  OptimizeBulletsWithLengthConstraint(
                [k \in 1..Len(original_bullets) |->
                    [bullet |-> original_bullets[k],
                     score |-> score_of[original_bullets[k]]]],
                Len(original_bullets))]

\* output_lines.append(line): section and from are history fields of the output
KeptLine(line) == [kind |-> line.kind, text |-> line.text, section |-> "", from |-> 0]

\* the loop "for line in lines" of reconstruct_resume from line i on, with the
\* locals current_section, bullet_index and output_lines
RECURSIVE ReconstructFrom(_, _, _, _, _, _)
ReconstructFrom(text_lines, optimized, i, current_section, bullet_index, out) ==
    IF i > Len(text_lines) THEN out
    ELSE LET line == text_lines[i]
         IN  IF line.kind = "header"
             THEN ReconstructFrom(text_lines, optimized, i + 1, Lower(line.text), 0,
                                  Append(out, KeptLine(line)))
             ELSE IF current_section = "skills" /\ line.kind = "skill"
             THEN IF bullet_index = 0
                  THEN ReconstructFrom(text_lines, optimized, i + 1, current_section, 1,
                           Append(out, [kind |-> "skills", text |-> "optimized_skills",
                                        section |-> "skills", from |-> 0]))
                  ELSE ReconstructFrom(text_lines, optimized, i + 1, current_section,
                                       bullet_index, out)
             ELSE IF IsHardCodedLine(line)
             THEN ReconstructFrom(text_lines, optimized, i + 1, current_section, 0,
                                  Append(out, KeptLine(line)))
             ELSE IF current_section \in DOMAIN optimized
             THEN IF bullet_index < Len(optimized[current_section])
                  THEN ReconstructFrom(text_lines, optimized, i + 1, current_section,
                           bullet_index + 1,
                           Append(out, [kind |-> "bullet",
                                        text |-> optimized[current_section][bullet_index + 1],
                                        section |-> current_section,
                                        from |-> bullet_index + 1]))
                  ELSE ReconstructFrom(text_lines, optimized, i + 1, current_section,
                                       bullet_index, out)
             ELSE ReconstructFrom(text_lines, optimized, i + 1, current_section,
                                  bullet_index, Append(out, KeptLine(line)))

\* reconstruct_resume(original_text, optimized_bullets, optimized_skills)
ReconstructResume(text_lines, optimized) ==
    ReconstructFrom(text_lines, optimized, 1, "none", 0, <<>>)

\* one entry of a section: its hard-coded line, its bullets, a blank line or none
EntryLines ==
    {<<[kind |-> "hard", text |-> h]>>
        \o [k \in 1..Len(bl) |-> [kind |-> "bullet", text |-> bl[k]]]
        \o gap :
        h \in {"ACME Remote", "Jan 2020"}, bl \in BulletLists,
        gap \in {<<>>, <<[kind |-> "blank", text |-> ""]>>}}

\* a skills section, or none
SkillsLines ==
    {<<>>,
     <<[kind |-> "header", text |-> "SKILLS"], [kind |-> "skill", text |-> "Languages: x"]>>,
     <<[kind |-> "header", text |-> "SKILLS"], [kind |-> "skill", text |-> "Languages: x"],
       [kind |-> "skill", text |-> "Cloud: y"]>>}

\* the texts given: one section of up to two entries, then the skills
OriginalTexts ==
    {<<[kind |-> "header", text |-> h]>> \o entries \o skills :
        h \in {"EXPERIENCE", "EDUCATION"},
        entries \in {<<>>} \cup EntryLines \cup {e1 \o e2 : e1 \in EntryLines, e2 \in EntryLines},
        skills \in SkillsLines}

\* the scores of the bullet texts: one of the two texts is the more relevant
TextScores ==
    {[t \in Texts |-> IF t = "a" THEN 1 ELSE 2], [t \in Texts |-> IF t = "a" THEN 2 ELSE 1]}

ReconstructInit ==
    /\ original_text \in OriginalTexts
    /\ \E score_of \in TextScores :
          optimized_bullets = OptimizedBulletsOf(original_text, score_of)
    /\ output_lines = <<>>
    /\ rpc = "call"

\* reconstruct_resume is not exercised
ReconstructOff ==
    /\ original_text = <<>>
    /\ optimized_bullets = [section \in {"experience", "projects"} |-> <<>>]
    /\ output_lines = <<>>
    /\ rpc = "off"

\* reconstruct_resume is called and returns the joined output_lines
ReconstructResumeCall ==
    /\ rpc = "call"
    /\ output_lines' = ReconstructResume(original_text, optimized_bullets)
    /\ rpc' = "returned"
    /\ UNCHANGED <<original_text, optimized_bullets>>
    /\ UNCHANGED notReconstructVars

Init ==
    \/ FitInit /\ LayoutOff /\ MatcherOff /\ ClassifierOff /\ BalanceOff /\ GridOff /\
       RunOff /\ BreakOff /\ OnePageOff /\ OptimizeOff /\ ReconstructOff
    \/ FitOff /\ LayoutInit /\ MatcherOff /\ ClassifierOff /\ BalanceOff /\ GridOff /\
       RunOff /\ BreakOff /\ OnePageOff /\ OptimizeOff /\ ReconstructOff
    \/ FitOff /\ LayoutOff /\ MatcherInit /\ ClassifierOff /\ BalanceOff /\ GridOff /\
       RunOff /\ BreakOff /\ OnePageOff /\ OptimizeOff /\ ReconstructOff
    \/ FitOff /\ LayoutOff /\ MatcherOff /\ ClassifierInit /\ BalanceOff /\ GridOff /\
       RunOff /\ BreakOff /\ OnePageOff /\ OptimizeOff /\ ReconstructOff
    \/ FitOff /\ LayoutOff /\ MatcherOff /\ ClassifierOff /\ BalanceInit /\ GridOff /\
       RunOff /\ BreakOff /\ OnePageOff /\ OptimizeOff /\ ReconstructOff
    \/ FitOff /\ LayoutOff /\ MatcherOff /\ ClassifierOff /\ BalanceOff /\ GridInit /\
       RunOff /\ BreakOff /\ OnePageOff /\ OptimizeOff /\ ReconstructOff
    \/ FitOff /\ LayoutOff /\ MatcherOff /\ ClassifierOff /\ BalanceOff /\ GridOff /\
       RunInit /\ BreakOff /\ OnePageOff /\ OptimizeOff /\ ReconstructOff
    \/ FitOff /\ LayoutOff /\ MatcherOff /\ ClassifierOff /\ BalanceOff /\ GridOff /\
       RunOff /\ BreakInit /\ OnePageOff /\ OptimizeOff /\ ReconstructOff
    \/ FitOff /\ LayoutOff /\ MatcherOff /\ ClassifierOff /\ BalanceOff /\ GridOff /\
       RunOff /\ BreakOff /\ OnePageInit /\ OptimizeOff /\ ReconstructOff
    \/ FitOff /\ LayoutOff /\ MatcherOff /\ ClassifierOff /\ BalanceOff /\ GridOff /\
       RunOff /\ BreakOff /\ OnePageOff /\ OptimizeInit /\ ReconstructOff
    \/ FitOff /\ LayoutOff /\ MatcherOff /\ ClassifierOff /\ BalanceOff /\ GridOff /\
       RunOff /\ BreakOff /\ OnePageOff /\ OptimizeOff /\ ReconstructInit

Next ==
    \/ NormalizeStep
    \/ IterationFits
    \/ IterationRemove
    \/ IterationNoBullets
    \/ MaxIterationsReached
    \/ RunAgain
    \/ Refit
    \/ LayoutResume
    \/ LayoutFits
    \/ LayoutCompress
    \/ LayoutOverflow
    \/ ComputeSimilarityEarly
    \/ ComputeSimilarity
    \/ ClassifyBulletCall
    \/ ClassifyBulletsCall
    \/ BalanceQuota
    \/ BalanceFill
    \/ GridLayoutResume
    \/ GridFits
    \/ GridCompress
    \/ GridPaginate
    \/ \E r \in Runs : GetSemanticMatcherTest(r)
    \/ \E r \in Runs : GetSemanticMatcherCreate(r)
    \/ \E r \in Runs : GetSemanticMatcherReturn(r)
    \/ \E r \in Runs : EncodeWithEmbeddings(r)
    \/ \E r \in Runs : EncodeFit(r)
    \/ \E r \in Runs : EncodeTransform(r)
    \/ CalculateLineBreaksCall
    \/ CalculateLayoutCall
    \/ ReorderStep
    \/ ReconstructResumeCall

Spec == Init /\ [][Next]_vars

\* ------------------------------------------------------------------ claims C1..C9
Normalized == pc \in {"loop", "done"}

NoMoreBullets(after, before) ==
    /\ Len(after) = Len(before)
    /\ \A i \in 1..Len(after) : Len(after[i].bullets) <= Len(before[i].bullets)

\* C1: after normalize and during and after fit_to_one_page every experience and
\* project entry has at most as many bullets as the input entry had, and no step
\* of the trimming loop adds a bullet to any entry.
C1_BulletsNeverIncrease ==
    /\ [](Normalized =>
            /\ NoMoreBullets(normalized_data.experience, parsed_resume.experience)
            /\ NoMoreBullets(normalized_data.projects, parsed_resume.projects))
    /\ [][pc = "loop" =>
            /\ NoMoreBullets(normalized_data'.experience, normalized_data.experience)
            /\ NoMoreBullets(normalized_data'.projects, normalized_data.projects)]_vars

C1_Witness ==
    /\ pc = "done"
    /\ run = 1
    /\ Len(removed) >= 2
    /\ \E i \in 1..Len(normalized_data.experience) :
          Len(normalized_data.experience[i].bullets)
              < Len(parsed_resume.experience[i].bullets)

\* C2: whatever the trimming loop has removed, every experience and project entry
\* of the input is still there, in the input's order, with the input's company,
\* title, location, date and project name; an entry left without bullets is kept.
C2_EntriesAndHardFieldsKept ==
    Normalized =>
        /\ Len(normalized_data.experience) = Len(parsed_resume.experience)
        /\ Len(normalized_data.projects) = Len(parsed_resume.projects)
        /\ \A i \in 1..Len(parsed_resume.experience) :
              /\ normalized_data.experience[i].company = parsed_resume.experience[i].company
              /\ normalized_data.experience[i].title = parsed_resume.experience[i].title
              /\ normalized_data.experience[i].location = parsed_resume.experience[i].location
              /\ normalized_data.experience[i].date = parsed_resume.experience[i].date
        /\ \A i \in 1..Len(parsed_resume.projects) :
              /\ normalized_data.projects[i].name = parsed_resume.projects[i].name
              /\ normalized_data.projects[i].tech_stack = parsed_resume.projects[i].tech_stack
              /\ normalized_data.projects[i].link = parsed_resume.projects[i].link

C2_Witness ==
    /\ pc = "done"
    /\ Len(parsed_resume.experience) = 2
    /\ parsed_resume.experience[1].bullets # <<>>
    /\ Len(normalized_data.experience) = 2
    /\ normalized_data.experience[1].bullets = <<>>
    /\ normalized_data.experience[2].bullets # <<>>

AllBullets(data) ==
    LET cands == Candidates(data)
    IN  {BulletAt(data, cands[i]) : i \in 1..Len(cands)}

\* a step of the trimming loop that removed a bullet
TrimStep == pc = "loop" /\ iteration' = iteration + 1

LastRemoved(log) == log[Len(log)]

SectionRank(section) == IF section = "experience" THEN 1 ELSE 2

\* b comes later than c in the input document: a later section, a later entry of the
\* same section, or a later original index in the same entry
LaterInInput(b, c) ==
    \/ SectionRank(b.section) > SectionRank(c.section)
    \/ b.section = c.section /\ b.entry_idx > c.entry_idx
    \/ b.section = c.section /\ b.entry_idx = c.entry_idx /\ b.orig > c.orig

\* C4: a document that is at most one page at the first measurement is returned by
\* fit_to_one_page as normalize made it, with no bullet removed, spacing mode
\* 'balanced'; and when the first layout LayoutEngine.layout_resume calculates
\* fits the content area, it returns that layout with compression level 0 and
\* fits_on_page true.
C4_FittingInputUnchanged ==
    /\ (pc = "done" /\ run = 1
          /\ CountPages(RenderHeight(Normalize(parsed_resume, semantic_scores)), capacity) <= 1)
        => /\ removed = <<>>
           /\ iteration = 0
           /\ stop = "fits"
           /\ normalized_data = [Normalize(parsed_resume, semantic_scores)
                                    EXCEPT !.spacing_mode = "balanced"]
    /\ (lpc = "returned"
          /\ measurements[1].total_height <= measurements[1].content_area_height)
        => /\ Len(measurements) = 1
           /\ layout_result.compression_level = 0
           /\ layout_result.fits_on_page
           /\ layout_result.total_height = measurements[1].total_height

C4_Witness ==
    /\ pc = "done"
    /\ run = 1
    /\ stop = "fits"
    /\ removed = <<>>
    /\ Len(Candidates(normalized_data)) >= 3
    /\ Len(normalized_data.experience) = 1
    /\ Len(normalized_data.projects) = 1

\* C5: when several bullets share the lowest score, the trimming step removes the
\* one with the latest original index: no bullet with the removed bullet's score
\* comes later in the input than the removed one.
C5_TieRemovesLatest ==
    [][TrimStep =>
          \A c \in AllBullets(normalized_data) :
              c.score = LastRemoved(removed').score => ~LaterInInput(c, LastRemoved(removed'))]_vars

\* C6: a trimming step removes exactly one bullet, and the score of the removed
\* bullet is at most the score of every bullet left in the document.
C6_RemovesOneGlobalLowest ==
    [][TrimStep =>
          /\ Len(removed') = Len(removed) + 1
          /\ Cardinality(DOMAIN Candidates(normalized_data'))
                = Cardinality(DOMAIN Candidates(normalized_data)) - 1
          /\ LastRemoved(removed') \in AllBullets(normalized_data)
          /\ \A c \in AllBullets(normalized_data') :
                LastRemoved(removed').score <= c.score]_vars

C6_Witness ==
    /\ pc = "loop"
    /\ removed # <<>>
    /\ LastRemoved(removed).section = "projects"
    /\ \E c \in AllBullets(normalized_data) :
          c.section = "experience" /\ c.score > LastRemoved(removed).score

\* C7: a bullet is removed only after the document was measured at the most
\* compact spacing and still overflowed.
C7_CompressionBeforeRemoval ==
    [][TrimStep => measured_mode' = "compact"]_vars

\* C8: fit_to_one_page makes at most 50 iterations and then returns: the loop
\* counter never passes 50, every iteration that does not return adds one to it (so
\* the 50 - iteration iterations left strictly decrease), at 50 the next step
\* returns, and a call returns because the document fits, because no bullet is
\* left to remove, or because the cap of 50 is reached.
C8_Terminates ==
    /\ [](iteration <= 50)
    /\ [][pc = "loop" /\ pc' = "loop" => iteration' = iteration + 1]_vars
    /\ [][pc = "loop" /\ iteration = 50 => pc' = "done"]_vars
    /\ [](pc = "done" => stop \in {"fits", "no_bullets", "max_iterations"})
    /\ [](pc = "done" /\ stop = "fits" => normalized_data.spacing_mode = "balanced")
    /\ [](pc = "done" /\ stop = "no_bullets" => Candidates(normalized_data) = <<>>)
    /\ [](pc = "done" /\ stop = "max_iterations" => iteration = 50)

C8_Witness ==
    /\ pc = "done"
    /\ stop = "max_iterations"
    /\ Candidates(normalized_data) # <<>>

\* C9: a result returned because the iteration cap was reached can be told from a
\* result returned for another reason: two calls that return the same document
\* agree on whether the cap was reached.
C9_MaxIterationsObservable ==
    (pc = "done" /\ run = 2 /\ normalized_data = prev.data) =>
        ((stop = "max_iterations") <=> (prev.stop = "max_iterations"))

\* ------------------------------------------------------------------ claim C10
\* C10: compute_similarity returns one result for each input bullet (every original
\* index once, with that bullet's text and score), sorted by descending score, equal
\* scores by ascending original index, and the ranks are 1..n in that order.
C10_RankedPermutation ==
    mpc = "returned" =>
        /\ Len(results) = Len(resume_bullets)
        /\ \A i \in 1..Len(resume_bullets) :
              \E k \in 1..Len(results) : results[k].original_index = i - 1
        /\ \A k \in 1..Len(results) :
              /\ results[k].rank = k
              /\ results[k].original_index \in 0..(Len(resume_bullets) - 1)
              /\ results[k].bullet = resume_bullets[results[k].original_index + 1]
              /\ results[k].score = similarities[results[k].bullet]
        /\ \A k \in 1..(Len(results) - 1) :
              \/ results[k].score > results[k + 1].score
              \/ /\ results[k].score = results[k + 1].score
                 /\ results[k].original_index < results[k + 1].original_index

C10_Witness ==
    /\ mpc = "returned"
    /\ Len(results) = 3
    /\ results[1].original_index = 1
    /\ results[2].score = results[3].score
    /\ results[2].original_index = 0

\* ------------------------------------------------------------------ claims C11, C12
MatcherLeft == mpc \in {"returned", "raised"}

\* C11: when compute_similarity is called with the empty job description "" and at
\* least one bullet, it returns one result for each bullet and every score is 0.5
\* (the result set being flagged as of low confidence).
C11_EmptyContextHalfScores ==
    (MatcherLeft /\ job_description = "" /\ resume_bullets # <<>>) =>
        /\ mpc = "returned"
        /\ Len(results) = Len(resume_bullets)
        /\ \A k \in 1..Len(results) : 2 * results[k].score = MaxScore

\* C12: when compute_similarity is called with no bullets it returns the empty list,
\* raises nothing and makes no call of encode (the vectorizer is not refitted).
C12_EmptyBulletsEmptyResult ==
    (MatcherLeft /\ resume_bullets = <<>>) =>
        /\ mpc = "returned"
        /\ results = <<>>
        /\ encode_calls = 0
        /\ vocabulary = {}

C12_Witness ==
    /\ mpc = "returned"
    /\ resume_bullets = <<>>
    /\ job_description = ""
    /\ ~use_embeddings

\* ------------------------------------------------------------------ claim C13
\* the priority order of the reference classifier
C13_Priority ==
    <<"achievement", "leadership", "technical", "project", "responsibility", "education">>

\* the reference sum of a category: 1 for a keyword, 2 for a pattern
C13_Sum(c) ==
    IF c \in IndicatorCategories THEN keyword_hits[c] + 2 * pattern_hits[c] ELSE 0

\* C13: classify_bullet returns the category with the highest sum (1 for each
\* matching keyword, 2 for each matching pattern), ties among non-zero sums going to
\* the earliest of Achievement > Leadership > Technical > Project > Responsibility >
\* Education, and Responsibility when every sum is 0.
C13_ReferenceClassifier ==
    cpc = "returned" =>
        IF \A i \in 1..Len(C13_Priority) : C13_Sum(C13_Priority[i]) = 0
        THEN category = "responsibility"
        ELSE \E i \in 1..Len(C13_Priority) :
                /\ category = C13_Priority[i]
                /\ \A j \in 1..Len(C13_Priority) :
                      C13_Sum(C13_Priority[j]) <= C13_Sum(category)
                /\ \A j \in 1..(i - 1) : C13_Sum(C13_Priority[j]) < C13_Sum(category)

C13_Witness ==
    /\ cpc = "returned"
    /\ category = "leadership"
    /\ C13_Sum("leadership") = 2
    /\ C13_Sum("technical") = 2
    /\ keyword_hits["leadership"] = 0

\* ------------------------------------------------------------------ claims C14..C16
QuotaDone == bpc \in {"fill", "returned"}

\* how many bullets of a category a list of bullet dicts holds
CountOf(sel, c) == Cardinality({k \in 1..Len(sel) : sel[k].category = c})

\* the place of a category in Achievement > Leadership > Technical > Project >
\* Responsibility > Education
PriorityRank(c) == CHOOSE i \in 1..Len(C13_Priority) : C13_Priority[i] = c

\* C14: balance_categories returns at most cap bullets, each one an input bullet,
\* none (by original index) selected twice, and the quota phase alone never selects
\* more than cap bullets.
C14_AtMostCapNoDuplicates ==
    /\ QuotaDone => Len(quota_selected) <= max_bullets
    /\ bpc = "returned" =>
          /\ Len(balanced) <= max_bullets
          /\ \A k \in 1..Len(balanced) :
                /\ selected[k].index \in 0..(Len(input_bullets) - 1)
                /\ balanced[k] = input_bullets[selected[k].index + 1]
          /\ \A j, k \in 1..Len(balanced) :
                j # k => selected[j].index # selected[k].index

C14_Witness ==
    /\ bpc = "returned"
    /\ max_bullets >= 3
    /\ Len(input_bullets) > max_bullets
    /\ Len(balanced) = max_bullets
    /\ Len(quota_selected) < max_bullets

\* C15: when the first loop of balance_categories has ended and nothing has been
\* filled yet, each category has contributed min(available, floor(cap x share))
\* bullets, in priority order; with cap = 5 and at least 2 Achievement bullets the
\* selection starts with exactly 2 Achievement bullets.
C15_QuotaBeforeFill ==
    QuotaDone =>
        /\ bpc = "fill" => selected = quota_selected
        /\ \A i \in 1..Len(C13_Priority) :
              CountOf(quota_selected, C13_Priority[i]) =
                  IF Len(categorized[C13_Priority[i]])
                        < (max_bullets * target_distribution[C13_Priority[i]]) \div 100
                  THEN Len(categorized[C13_Priority[i]])
                  ELSE (max_bullets * target_distribution[C13_Priority[i]]) \div 100
        /\ \A j, k \in 1..Len(quota_selected) :
              j < k => PriorityRank(quota_selected[j].category)
                          <= PriorityRank(quota_selected[k].category)
        /\ (max_bullets = 5 /\ Len(categorized["achievement"]) >= 2) =>
              /\ CountOf(quota_selected, "achievement") = 2
              /\ quota_selected[1].category = "achievement"
              /\ quota_selected[2].category = "achievement"

C15_Witness ==
    /\ bpc = "fill"
    /\ max_bullets = 5
    /\ Len(categorized["achievement"]) >= 3
    /\ Len(quota_selected) >= 3

\* C16: whenever a category has more bullets than its target count, every bullet the
\* quota phase selected from it has a score greater than or equal to that of every
\* bullet of the category the quota phase left unselected.
C16_QuotaTakesHighestScores ==
    QuotaDone =>
        \A i \in 1..Len(C13_Priority) :
            LET of_category == categorized[C13_Priority[i]]
            IN  Len(of_category) > TargetCount(C13_Priority[i], max_bullets) =>
                    \A j, k \in 1..Len(of_category) :
                        (/\ \E q \in 1..Len(quota_selected) : quota_selected[q] = of_category[j]
                         /\ \A q \in 1..Len(quota_selected) : quota_selected[q] # of_category[k])
                        => score_map[of_category[j].text] >= score_map[of_category[k].text]

\* ------------------------------------------------------------------ claims C17, C18

\* settings a at least as compact as settings b in every respect, more in one
StrictlyMoreCompact(a, b) ==
    /\ a.section_spacing <= b.section_spacing
    /\ a.entry_spacing <= b.entry_spacing
    /\ a.bullet_spacing <= b.bullet_spacing
    /\ a.font_scale <= b.font_scale
    /\ \/ a.section_spacing < b.section_spacing
       \/ a.entry_spacing < b.entry_spacing
       \/ a.bullet_spacing < b.bullet_spacing
       \/ a.font_scale < b.font_scale

\* C17: in one layout_resume call the settings the document is measured with at
\* level k+1 are strictly more compact than those at level k, and the measured
\* height does not increase from one level to the next.
C17_EachLevelMoreCompact ==
    \A k \in 1..(Len(grid_measured) - 1) :
        /\ StrictlyMoreCompact(grid_measured[k + 1], grid_measured[k])
        /\ grid_measured[k + 1].total_height <= grid_measured[k].total_height

\* the page capacity height _paginate divides by
PageCapacity ==
    ModernTechTemplate.page_height - ModernTechTemplate.margin_top
    - ModernTechTemplate.margin_bottom

\* C18: a returned layout that fits has page_count 1; one that fits at no level
\* has fits_on_page false and page_count equal to the ceiling of the total height
\* over the page capacity height.
C18_PageCountIsCeiling ==
    gpc = "returned" =>
        IF grid_result.fits_on_page
        THEN grid_result.page_count = 1
        ELSE grid_result.page_count
                 = (grid_result.total_height + PageCapacity - 1) \div PageCapacity

\* ------------------------------------------------------------------ claim C19

\* C19: the scorer is constructed at most once in a process, no run's encode changes
\* a scorer's state, and under every interleaving a run that returned has the scores
\* it gets when it runs alone.
C19_RunsShareNoMutableState ==
    /\ instances_created <= 1
    /\ \A i \in Matchers : fitted[i] = <<>>
    /\ \A r \in Runs : run_pc[r] = "returned" => RunScores(r) = ScoresAlone(r)

\* ------------------------------------------------------------------ claim C20

\* the words of the lines, one line after the other
AllWords(ls) ==
    [k \in 1..SumSeq([j \in 1..Len(ls) |-> Len(ls[j])]) |->
        LET j == CHOOSE j \in 1..Len(ls) :
                     /\ SumSeq([m \in 1..(j - 1) |-> Len(ls[m])]) < k
                     /\ k <= SumSeq([m \in 1..j |-> Len(ls[m])])
        IN  ls[j][k - SumSeq([m \in 1..(j - 1) |-> Len(ls[m])])]]

\* C20: calculate_line_breaks returns; every returned line is at most the max width
\* wide, a word wider than the max width included; the lines hold the words of the
\* text in their order, none lost, none twice.
C20_LinesFitWordsKept ==
    fpc = "returned" =>
        /\ \A j \in 1..Len(lines) : MeasureLine(lines[j]) <= max_width_inches
        /\ AllWords(lines) = words

\* ------------------------------------------------------------------ claim C21

\* the bullets of every entry of a document
BulletContent(data) ==
    [experience |-> [i \in 1..Len(data.experience) |-> data.experience[i].bullets],
     projects |-> [i \in 1..Len(data.projects) |-> data.projects[i].bullets]]

\* C21: the document fit_to_one_page returns has the bullets of the document it last
\* measured, and the outcome it reports (fits, or compact for no fit) is what a page
\* count of the returned bullets gives, on each of the three return paths.
C21_ReturnsWhatItMeasured ==
    pc = "done" =>
        /\ BulletContent(normalized_data) = BulletContent(measured_data)
        /\ (stop = "fits")
             = Fits(CountPages(
                   RenderHeight([normalized_data EXCEPT !.spacing_mode = measured_mode]),
                   capacity))

\* ------------------------------------------------------------------ claims C22, C23

RECURSIVE FreshSettings(_)
\* the settings a newly constructed engine has after _apply_compression at level k
FreshSettings(k) ==
    IF k = 0 THEN ApplyCompression(DefaultSettings, 0)
    ELSE ApplyCompression(FreshSettings(k - 1), k)

\* the layout at level k on a newly constructed engine fits the content area
FreshFits(resume, k) ==
    CalculateLayout(resume, FreshSettings(k)) <= ContentAreaHeight(FreshSettings(k))

\* what layout_resume returns on a newly constructed engine: the smallest level that
\* fits, else level 4 with fits_on_page false
FreshResult(resume) ==
    IF \E k \in 0..4 : FreshFits(resume, k)
    THEN LET k == CHOOSE k \in 0..4 :
                      FreshFits(resume, k) /\ \A j \in 0..(k - 1) : ~FreshFits(resume, j)
         IN  [total_height |-> CalculateLayout(resume, FreshSettings(k)),
              fits_on_page |-> TRUE, compression_level |-> k,
              settings |-> FreshSettings(k)]
    ELSE [total_height |-> CalculateLayout(resume, FreshSettings(4)),
          fits_on_page |-> FALSE, compression_level |-> 4,
          settings |-> FreshSettings(4)]

\* C22: the first layout_resume call on a newly constructed engine returns the smallest
\* level of 0..4 whose measured height fits the content area, with fits_on_page true,
\* or fits_on_page false with level 4 and the layout of level 4 when none fits; the
\* levels tried in one call never decrease.
C22_SmallestFittingLevel ==
    /\ (lpc = "returned" /\ calls = 1) => layout_result = FreshResult(resume_data)
    /\ \A i \in 1..(Len(measurements) - 1) :
          measurements[i].level <= measurements[i + 1].level

\* a first call that returned a fit at a level above 0, and one that fits at no level
C22_Witness ==
    /\ lpc = "returned"
    /\ calls = 1
    /\ \/ layout_result.fits_on_page /\ layout_result.compression_level >= 1
       \/ ~layout_result.fits_on_page /\ Len(measurements) = 5

\* C23: every layout_resume call, also a second one on the same engine, measures
\* first at level 0 with the default settings, and returns for a resume the level,
\* settings and total height that the first call on the engine returns for it.
C23_EveryCallStartsLoose ==
    /\ measurements # <<>> =>
          /\ measurements[1].level = 0
          /\ measurements[1].settings = DefaultSettings
    /\ lpc = "returned" => layout_result = FreshResult(resume_data)

\* ------------------------------------------------------------------ claim C24

\* the document the caller passed to the current fit_to_one_page call
FitArgument ==
    IF prev.call = "refit" THEN prev.data ELSE Normalize(parsed_resume, semantic_scores)

\* C24: when fit_to_one_page has returned, the object the caller passed in (the dict
\* normalized_data, which is also the object returned) still has the bullets it was
\* passed with, in their order.
C24_CallerInputNotMutated ==
    pc = "done" => BulletContent(normalized_data) = BulletContent(FitArgument)

\* ------------------------------------------------------------------ claim C25

\* the 11-inch page height
ElevenInches == 11 * 7200

\* C25: calculate_layout reports fits_one_page true exactly when the estimated height
\* is at most 11 inches, and the compression level it returns is not "none" whenever
\* the first estimate exceeds 11 inches.
C25_FitsMeansAtMostElevenInches ==
    opc = "returned" =>
        /\ metrics.fits_one_page = (metrics.estimated_height <= ElevenInches)
        /\ EstimateContentHeight(content, current_font_size, 15, 5400, 1440) > ElevenInches
              => metrics.compression_level # "none"

\* ------------------------------------------------------------------ claim C26

\* C26: balance_categories returns exactly min(cap, number of input bullets) bullets:
\* what the quota phase selected, followed by bullets it had not selected, taken in
\* category priority order, a category being passed only once all its bullets are
\* selected; with cap equal to the number of input bullets every input bullet (by
\* original index) is returned exactly once.
C26_FillReachesCap ==
    bpc = "returned" =>
        /\ Len(balanced) = IF max_bullets < Len(input_bullets) THEN max_bullets
                           ELSE Len(input_bullets)
        /\ SubSeq(selected, 1, Len(quota_selected)) = quota_selected
        /\ \A k \in (Len(quota_selected) + 1)..Len(selected) :
              /\ \A q \in 1..Len(quota_selected) : quota_selected[q] # selected[k]
              /\ \A j \in (Len(quota_selected) + 1)..(k - 1) :
                    PriorityRank(selected[j].category) <= PriorityRank(selected[k].category)
              /\ \A i \in 1..(PriorityRank(selected[k].category) - 1) :
                    \A b \in 1..Len(categorized[C13_Priority[i]]) :
                        \E j \in 1..(k - 1) : selected[j] = categorized[C13_Priority[i]][b]
        /\ max_bullets = Len(input_bullets) =>
              \A n \in 0..(Len(input_bullets) - 1) :
                  Cardinality({k \in 1..Len(balanced) : selected[k].index = n}) = 1

\* the cap is the number of input bullets, two of them have the same text, and the
\* fill added more than one bullet to what the quota phase selected
C26_Witness ==
    /\ bpc = "returned"
    /\ max_bullets = Len(input_bullets)
    /\ max_bullets >= 3
    /\ \E j, k \in 1..Len(input_bullets) : j # k /\ input_bullets[j] = input_bullets[k]
    /\ Len(selected) >= Len(quota_selected) + 2

\* ------------------------------------------------------------------ claim C27

\* out is the stable arrangement of the texts of an entry by descending score: every
\* input position occurs once with its text and its score, scores do not increase,
\* and equal scores keep the input order
StablyReordered(entry_bullets, out, ranks) ==
    /\ Len(out) = Len(entry_bullets)
    /\ {out[k].orig : k \in 1..Len(out)} = 1..Len(entry_bullets)
    /\ \A k \in 1..Len(out) :
          /\ out[k].text = entry_bullets[out[k].orig]
          /\ out[k].score = ScoreMapGet(ranks, out[k].text)
    /\ \A k \in 1..(Len(out) - 1) :
          \/ out[k].score > out[k + 1].score
          \/ /\ out[k].score = out[k + 1].score
             /\ out[k].orig < out[k + 1].orig

\* C27: after step 8 of optimize_resume, and after normalize, every experience and
\* project entry holds the bullets it held before (the same multiset, none taken from
\* another entry), by non-increasing score, equal scores in their original order.
C27_BulletsStablyReorderedInPlace ==
    /\ xpc = "reordered" =>
          /\ Len(optimized_resume.experience) = Len(optimize_input.experience)
          /\ Len(optimized_resume.projects) = Len(optimize_input.projects)
          /\ \A i \in 1..Len(optimize_input.experience) :
                StablyReordered(optimize_input.experience[i].bullets,
                                optimized_resume.experience[i].bullets, semantic_results)
          /\ \A i \in 1..Len(optimize_input.projects) :
                StablyReordered(optimize_input.projects[i].bullets,
                                optimized_resume.projects[i].bullets, semantic_results)
    /\ (pc = "loop" /\ iteration = 0 /\ prev.call # "refit") =>
          /\ Len(normalized_data.experience) = Len(parsed_resume.experience)
          /\ Len(normalized_data.projects) = Len(parsed_resume.projects)
          /\ \A i \in 1..Len(parsed_resume.experience) :
                StablyReordered(parsed_resume.experience[i].bullets,
                                normalized_data.experience[i].bullets, semantic_scores)
          /\ \A i \in 1..Len(parsed_resume.projects) :
                StablyReordered(parsed_resume.projects[i].bullets,
                                normalized_data.projects[i].bullets, semantic_scores)

\* step 8 has moved the higher-scored second bullet of the first job to the front,
\* and has left the two bullets of the second job, equal in score, as they were
C27_Witness ==
    /\ xpc = "reordered"
    /\ Len(optimize_input.experience) = 2
    /\ optimize_input.experience[1].bullets = <<"a", "b">>
    /\ optimize_input.experience[2].bullets = <<"a", "a">>
    /\ optimized_resume.experience[1].bullets[1].text = "b"
    /\ optimized_resume.experience[1].bullets[1].orig = 2
    /\ optimized_resume.experience[1].bullets[1].score
          > optimized_resume.experience[1].bullets[2].score
    /\ optimized_resume.experience[2].bullets[1].orig = 1
    /\ optimized_resume.experience[2].bullets[2].orig = 2

\* ------------------------------------------------------------------ claim C28
\* C28: a level whose laid-out content ends at or above page_height minus the bottom
\* margin is the level layout_resume returns, with fits_on_page true: no level whose
\* content ends inside the page's content area is passed over.
C28_FitsWhenContentEndsAboveBottomMargin ==
    \A k \in 1..Len(measurements) :
        measurements[k].total_height
            <= measurements[k].settings.page_height - measurements[k].settings.margin_bottom
        => /\ k = Len(measurements)
           /\ lpc = "returned"
           /\ layout_result.fits_on_page
           /\ layout_result.compression_level = measurements[k].level

\* ------------------------------------------------------------------ claim C29
\* C29: with the TF-IDF fallback, a call of compute_similarity on a non-empty bullet
\* list ends by returning, never by an exception, and the bullets are encoded over the
\* vocabulary the job description was encoded over.
C29_TfidfOneSharedSpace ==
    (~use_embeddings /\ resume_bullets # <<>> /\ mpc \in {"returned", "raised"}) =>
        /\ mpc = "returned"
        /\ vocabulary = FittedVocabulary(<<job_description>>)

\* ------------------------------------------------------------------ claim C30

\* the hard-coded lines of a list of lines, in order
HardCodedLines(text_lines) ==
    LET at == {i \in 1..Len(text_lines) : IsHardCodedLine(text_lines[i])}
    IN  [k \in 1..Cardinality(at) |->
            text_lines[CHOOSE i \in at : Cardinality({j \in at : j < i}) = k - 1].text]

\* how many bullet lines a list of lines has
BulletLineCount(text_lines) ==
    Cardinality({i \in 1..Len(text_lines) : text_lines[i].kind = "bullet"})

\* C30: the text reconstruct_resume returns has the hard-coded lines of the original,
\* unchanged and in their order; every optimized bullet of a section is in it at most
\* once; and it has at most as many bullet lines as the original.
C30_HardCodedKeptBulletsOnce ==
    rpc = "returned" =>
        /\ HardCodedLines(output_lines) = HardCodedLines(original_text)
        /\ \A section \in DOMAIN optimized_bullets :
              \A k \in 1..Len(optimized_bullets[section]) :
                  Cardinality({i \in 1..Len(output_lines) :
                                  /\ output_lines[i].kind = "bullet"
                                  /\ output_lines[i].section = section
                                  /\ output_lines[i].from = k}) <= 1
        /\ BulletLineCount(output_lines) <= BulletLineCount(original_text)

====
